---- MODULE Spec2Model ----
(***************************************************************************)
(* A model of the NativeScript debug adapter's protocol bridge:            *)
(*   - the breakpoint manager of WebKitDebugAdapter (setBreakpoints, its   *)
(*     promise queue, the clear-then-add cycle, the committed-id map);     *)
(*   - the frame codec PacketStream and the framing of sendMessage;        *)
(*   - the request/response multiplexer ResReqTcpSocket;                   *)
(*   - the attach/retry protocol of IosConnection and the session's        *)
(*     handling of the connection's events;                                *)
(*   - the pending-breakpoint mechanism of SourceMapTransformer and its    *)
(*     rewriting of setBreakpoints requests and responses;                 *)
(*   - pausing, stepping and inspecting, and the console output.           *)
(* Each part has its own specification over the module's variables; the    *)
(* variables of the other parts stay at their initial values.              *)
(***************************************************************************)
EXTENDS Integers, Sequences, FiniteSets, TLC

(***************************************************************************)
(* Bounds of the breakpoint-manager model.                                 *)
(***************************************************************************)
\* number of setBreakpoints calls issued in one run
MaxOps == 2
\* the same, in the deeper exploration of the cases that take three calls
MaxOpsDeep == 3
\* number of breakpointResolved / globalObjectCleared notifications in one run
MaxNotifs == 1

Urls == {"a.js", "b.js"}
\* the authored files: a.js is generated from them
AuthoredPaths == {"app.ts", "lib.ts"}
\* the keys the adapter's per-URL maps can take; "" is no URL
MapKeys == Urls \cup AuthoredPaths \cup {""}
Lines == {10, 20, 30}
\* script ids are numeric strings (sourceReference = parseInt(scriptId)); 0 is no reference
Scripts == {1}

\* the request line lists of the IDE: none, an accepted and a refused line,
\* an accepted line with and one without a location
LineLists == {<<>>, <<10, 20>>, <<10, 30>>}

\* the setBreakpoints requests that name a path: every list for a.js, one for b.js
Requests == {<<"a.js", lines>> : lines \in LineLists} \cup {<<"b.js", <<10, 30>>>>}

VARIABLES
    \* ---- WebKitDebugAdapter, breakpoint manager
    ops,            \* the setBreakpoints calls issued so far, in issuance order
    requestQ,       \* _setBreakpointsRequestQ: 0 = a resolved promise, k = call k's queue promise
    committed,      \* _committedBreakpointsByUrl
    scriptsById,    \* _scriptsById (the script ids registered)
    wire,           \* requests sent to the target and not yet answered, FIFO
    target,         \* the breakpoint ids the target holds
    lastAcked,      \* history: ids acknowledged for the last successful request, per URL
    disturbed,      \* history: a notification was processed since the last completed cycle ended
    notifs,         \* history: the number of notifications processed
    queueCut,       \* history: the queue was reset while a call was unfinished
    \* ---- PacketStream
    codecMsgs,      \* the message texts that were framed (fixed during a run)
    codecRest,      \* the frame bytes the socket has not yet handed over
    codecBuffer,    \* PacketStream.buffer with its offset
    codecPushed,    \* the buffers pushed downstream, in order
    codecThrew,     \* _transform threw
    \* ---- ResReqTcpSocket / IosConnection, request multiplexer
    nextId,         \* IosConnection._nextId
    pendingRequests,\* the keys of ResReqTcpSocket._pendingRequests
    muxWritten,     \* ids of the messages written to the socket, in order
    muxLog,         \* history: one record per inbound message handled by onMessage
    muxListeners,   \* the event names of the listeners registered with on(), in order
    muxSocket,      \* the unix socket: open or not, and the listeners its 'close' reached
    \* ---- SourceMapTransformer
    smtEnabled,     \* _sourceMaps is set (the request asked for source maps)
    smtReqs,        \* the setBreakpoints requests given to the transformer, by requestSeq
                    \* (own: at the response the lines cached for the file were the request's)
    pendingBreakpointsByPath,   \* _pendingBreakpointsByPath: path -> requestSeq, 0 = no entry
    allRuntimeScriptPaths,      \* _allRuntimeScriptPaths
    smtMaps,        \* the generated scripts whose source map SourceMaps has ingested
    smtIngesting,   \* the generated scripts with a ProcessNewSourceMap call in progress
    mappedBPs,      \* _authoredPathsToMappedBPLines / _authoredPathsToMappedBPCols
    smtHanded,      \* requests whose transformer promise resolved, not yet at the adapter
    \* ---- attach: processRequest, IosConnection.attach, ResReqTcpSocket.attach
    isSync,         \* _request.isSync
    webKitConnection,   \* _webKitConnection: "unset", "set" or "null"
    attachP,        \* the promise of IosConnection.attach: "idle", "trying", "resolved", "rejected"
    attSockets,     \* the Unix socket of each connection attempt
    attDestroyOn,   \* attempts whose promise carries close()'s socket.destroy() continuation
    attCloseQueue,  \* sockets whose 'close' event is still to be emitted
    attEndpoint,    \* the application has opened its debug endpoint
    attEvents,      \* the InitializedEvent / TerminatedEvent fired, in order
    attThrew,       \* the continuation of attachPromise threw (TypeError on null)
    attHistory,     \* history: clearEverything calls of terminateSession, deadline, peer close
    \* ---- the session and its connections: processRequest, setConnection, terminateSession
    conns,          \* the connections made by the readyForConnection handler, in order
    sesConnection,  \* _webKitConnection as an index of conns, 0 = null or undefined
    sesEvents,      \* the InitializedEvent / TerminatedEvent fired, in order
    sesPromise,     \* the promise processRequest returns for the launch/attach request
    sesTriggers,    \* history: the number of terminateSession calls for each kind of event
    \* ---- WebKitDebugAdapter, pausing, stepping and inspecting
    currentStack,   \* _currentStack
    expectingResumedEvent,  \* _expectingResumedEvent
    exceptionValueObject,   \* _exceptionValueObject
    variableHandles,\* _variableHandles: the handle of reference i is variableHandles[i]
    dbgEvents,      \* the StoppedEvents and continued events fired: how many, and the last
    dbgSent,        \* the number of commands sent to the target
    dbgInbox,       \* the target's notifications the connection has not emitted yet
    targetPaused,   \* the target is paused
    lastRequest,    \* history: the last request of the IDE and its outcome
    dbgHistory,     \* history: the pauses and requests so far, an evaluate was refused for
                    \* its frame's script, the last Debugger.paused handled
    \* ---- WebKitDebugAdapter, console output
    lastOutputEvent,\* _lastOutputEvent; it stays null in the parts without console messages
    outputEvents,   \* the number of OutputEvents fired
    ctxHistory      \* history: since the last clearTargetContext, no console message came
                    \* (quiet); the OutputEvents fired before it, the repeat counts after it

bpVars == <<ops, requestQ, committed, scriptsById, wire, target, lastAcked, disturbed, notifs, queueCut>>
codecVars == <<codecMsgs, codecRest, codecBuffer, codecPushed, codecThrew>>
muxVars == <<nextId, pendingRequests, muxWritten, muxLog, muxListeners, muxSocket>>
smtVars == <<smtEnabled, smtReqs, pendingBreakpointsByPath, allRuntimeScriptPaths, smtMaps,
             smtIngesting, mappedBPs, smtHanded>>

attVars == <<isSync, webKitConnection, attachP, attSockets, attDestroyOn, attCloseQueue,
             attEndpoint, attEvents, attThrew, attHistory>>

sesVars == <<conns, sesConnection, sesEvents, sesPromise, sesTriggers>>

dbgVars == <<currentStack, expectingResumedEvent, exceptionValueObject, variableHandles,
             dbgEvents, dbgSent, dbgInbox, targetPaused, lastRequest, dbgHistory>>

outVars == <<lastOutputEvent, outputEvents, ctxHistory>>

vars == <<bpVars, codecVars, muxVars, smtVars, attVars, sesVars, dbgVars, outVars>>

\* a step of one part leaves the other parts alone
BpOnly == UNCHANGED <<codecVars, muxVars, smtVars, attVars, sesVars, dbgVars, outVars>>
CodecOnly == UNCHANGED <<bpVars, muxVars, smtVars, attVars, sesVars, dbgVars, outVars>>
MuxOnly == UNCHANGED <<bpVars, codecVars, smtVars, attVars, sesVars, dbgVars, outVars>>
SmtOnly == UNCHANGED <<codecVars, muxVars, attVars, sesVars, dbgVars, outVars>>
AttOnly == UNCHANGED <<codecVars, sesVars, dbgVars, outVars>>
SesOnly == UNCHANGED <<codecVars, muxVars, attVars, dbgVars, outVars>>
DbgOnly == UNCHANGED <<codecVars, muxVars, smtVars, attVars, sesVars, outVars>>
OutOnly == UNCHANGED <<codecVars, muxVars, smtVars, attVars, sesVars, dbgVars>>

(***************************************************************************)
(* The target (WebKit inspector protocol): a deterministic environment.    *)
(* A breakpoint set by URL gets the id url:line; a second breakpoint at    *)
(* the same place is refused ("breakpoint already exists"); line 20 is     *)
(* refused always; a breakpoint at line 30 is accepted without a location  *)
(* (its script is not loaded); line 10 resolves one line further down, at  *)
(* column 3.                                                               *)
(***************************************************************************)
BpId(url, line) == <<url, line>>
NoId == <<"", 0>>

LineKind(line) ==
    CASE line = 20 -> "reject"
      [] line = 30 -> "noloc"
      [] OTHER -> "loc"

TargetSetBreakpointByUrl(tgt, url, line) ==
    IF LineKind(line) = "reject" \/ BpId(url, line) \in tgt
    THEN [error |-> TRUE, breakpointId |-> NoId, locations |-> <<>>]
    ELSE [error |-> FALSE, breakpointId |-> BpId(url, line),
          locations |-> IF LineKind(line) = "noloc" THEN <<>>
                        ELSE <<[lineNumber |-> line + 1, columnNumber |-> 3]>>]

\* the URL of a parsed script
ScriptUrl(scriptId) ==
    CASE scriptId = 1 -> "a.js"
      [] scriptId = 2 -> "lib.ts"
      [] OTHER -> ""

(***************************************************************************)
(* _committedBreakpointsByUrl: a Map whose values are id lists or null.    *)
(***************************************************************************)
Absent == [st |-> "absent", ids |-> <<>>]
NullList == [st |-> "null", ids |-> <<>>]
ListOf(ids) == [st |-> "list", ids |-> ids]
EmptyMap == [u \in MapKeys |-> Absent]

\* a map that is never found to hold the URL, so that nothing is cleared
HasNever(map, url) == FALSE

\* Map.has(url)
Has(map, url) == map[url].st # "absent"

(***************************************************************************)
(* One setBreakpoints call.  phase is the position of its promise chain:   *)
(* queued (waiting for the queue promise it was chained on), clearing,     *)
(* adding, done (the chain fulfilled), threw (the chain rejected),         *)
(* refused (no target script: never enqueued).  outcome is the promise     *)
(* returned to the caller.                                                 *)
(***************************************************************************)
NewOp(url, lines, bps, q) ==
    [url |-> url, lines |-> lines, bps |-> bps, waitsOn |-> q, phase |-> "queued",
     snap |-> <<>>, sent |-> 0, acked |-> 0, cleared |-> FALSE,
     resps |-> <<>>, outcome |-> "pending", result |-> <<>>,
     after |-> <<>>, clean |-> FALSE, waited |-> FALSE, runs |-> 0]

\* the part of the state a promise continuation reads and writes
BpState == [ops |-> ops, committed |-> committed, wire |-> wire,
            lastAcked |-> lastAcked, disturbed |-> disturbed]

\* a call is unfinished: its chain has neither fulfilled nor rejected
Unfinished(o) == o.phase \in {"queued", "clearing", "adding"}
\* a cycle is in flight: it has started and not ended
InFlight(o) == o.phase \in {"clearing", "adding"}

\* a promise is settled: 0 is Promise.resolve()
Settled(s, k) == k = 0 \/ s.ops[k].outcome # "pending"

\* the calls chained on call k's queue promise and not started yet
Waiters(s, k) ==
    {j \in 1..Len(s.ops) : s.ops[j].waitsOn = k /\ s.ops[j].phase = "queued"}

RemoveRequest(k, id, idx) == [op |-> k, kind |-> "remove", id |-> id, line |-> 0, idx |-> idx]
AddRequest(k, line, idx) == [op |-> k, kind |-> "add", id |-> NoId, line |-> line, idx |-> idx]

\* responses.filter(response => !response.error).map(response => response.result.breakpointId)
CommittedBpIds(responses) ==
    LET ok == SelectSeq(responses, LAMBDA r : ~r.error)
    IN  [i \in 1..Len(ok) |-> ok[i].breakpointId]

\* one entry of the DebugProtocol result
ODPBreakpoint(response, requestLine) ==
    IF response.error \/ response.locations = <<>>
    THEN [verified |-> ~response.error, line |-> requestLine, column |-> 0]
    ELSE [verified |-> TRUE, line |-> response.locations[1].lineNumber,
          column |-> response.locations[1].columnNumber]

\* a result built from the responses that did not error only
ODPBreakpointsOfCommitted(responses, requestLines) ==
    LET ok == SelectSeq(responses, LAMBDA r : ~r.error)
    IN  [i \in 1..Len(ok) |-> ODPBreakpoint(ok[i], requestLines[i])]

\* responses.map((response, i) => ...)
ODPBreakpoints(responses, requestLines) ==
    [i \in 1..Len(responses) |-> ODPBreakpoint(responses[i], requestLines[i])]

\* the first add request alone
AddRequestsFirstOnly(k, lines, bps) == <<AddRequest(k, lines[1], 1)>>

\* the add requests of one cycle, all sent in the same tick: one per entry of
\* args.breakpoints (bps of them), at the lines args.lines holds at these places
AddRequests(k, lines, bps) == [i \in 1..bps |-> AddRequest(k, lines[i], i)]

\* all the remaining removes sent at once
NextRemovesAtOnce(k, snap, sent) ==
    [i \in 1..(Len(snap) - sent) |-> RemoveRequest(k, snap[sent + i], sent + i)]

\* the remove requests a clearing cycle sends after it has sent `sent` of them
\* and got the answer to the last one: the next id of the list, alone
NextRemoves(k, snap, sent) == <<RemoveRequest(k, snap[sent + 1], sent + 1)>>

RECURSIVE StartCycle(_, _)
RECURSIVE AddBreakpoints(_, _)
RECURSIVE Convert(_, _)
RECURSIVE Throw(_, _)
RECURSIVE RunWaiters(_, _)

\* the continuations of call k's queue promise, run when it settles
RunWaiters(s, k) ==
    IF Waiters(s, k) = {} THEN s
    ELSE StartCycle(s, CHOOSE j \in Waiters(s, k) : TRUE)

\* the chain of call k rejects (a TypeError thrown in a continuation)
Throw(s, k) ==
    LET was == s.ops[k].outcome
        s1 == [s EXCEPT !.ops[k].phase = "threw",
                        !.ops[k].outcome = IF was = "pending" THEN "error" ELSE was]
    IN  IF was = "pending" THEN RunWaiters(s1, k) ELSE s1

\* _webkitBreakpointResponsesToODPBreakpoints, and the settling of the call
Convert(s, k) ==
    LET o == s.ops[k]
        ids == CommittedBpIds(o.resps)
        was == o.outcome
        s1 == [s EXCEPT !.committed[o.url] = ListOf(ids),
                        !.ops[k].phase = "done",
                        !.ops[k].result = ODPBreakpoints(o.resps, o.lines),
                        !.ops[k].after = ids,
                        !.ops[k].clean = ~s.disturbed,
                        !.ops[k].outcome = IF was = "pending" THEN "resolved" ELSE was,
                        !.lastAcked[o.url] = IF was = "pending" THEN ids ELSE @,
                        !.disturbed = FALSE]
    IN  IF was = "pending" THEN RunWaiters(s1, k) ELSE s1

\* _addBreakpoints: one setBreakpointByUrl per requested breakpoint, then Promise.all
AddBreakpoints(s, k) ==
    LET o == s.ops[k]
    IN  IF o.bps = 0 THEN Convert(s, k)
        ELSE [s EXCEPT !.ops[k].phase = "adding",
                       !.wire = @ \o AddRequests(k, o.lines, o.bps)]

\* _clearAllBreakpoints, called when the queue promise call k waits on settles
StartCycle(s0, k) ==
    LET s == [s0 EXCEPT !.ops[k].runs = @ + 1]
        o == s.ops[k]
        c == s.committed[o.url]
    IN  IF ~Has(s.committed, o.url) THEN AddBreakpoints(s, k)
        ELSE IF c.st = "null" THEN Throw(s, k)
        ELSE IF c.ids = <<>>
             THEN AddBreakpoints([s EXCEPT !.committed[o.url] = NullList,
                                           !.ops[k].cleared = TRUE], k)
        ELSE [s EXCEPT !.ops[k].phase = "clearing",
                       !.ops[k].snap = c.ids,
                       !.ops[k].sent = 1,
                       !.wire = @ \o NextRemoves(k, c.ids, 0)]

\* the response to a removeBreakpoint request of call k arrives
RemoveAnswered(s, k) ==
    LET o == s.ops[k]
        s1 == [s EXCEPT !.ops[k].acked = @ + 1]
    IN  IF o.acked + 1 < Len(o.snap)
        THEN [s1 EXCEPT !.ops[k].sent = @ + 1,
                        !.wire = @ \o NextRemoves(k, o.snap, o.sent)]
        ELSE AddBreakpoints([s1 EXCEPT !.committed[o.url] = NullList,
                                       !.ops[k].cleared = TRUE], k)

\* the response to a setBreakpointByUrl request of call k arrives
AddAnswered(s, k, response) ==
    LET s1 == [s EXCEPT !.ops[k].resps = Append(@, response)]
    IN  IF Len(s1.ops[k].resps) = s1.ops[k].bps THEN Convert(s1, k) ELSE s1

Commit(s) ==
    /\ ops' = s.ops
    /\ committed' = s.committed
    /\ wire' = s.wire
    /\ lastAcked' = s.lastAcked
    /\ disturbed' = s.disturbed

\* a queue promise that is not replaced by the new call's
EnqueuedQStale(q, k) == q

\* what _setBreakpointsRequestQ becomes when call k is enqueued
EnqueuedQ(q, k) == k

\* whether a call chained on queue promise q starts at once
StartsNow(s, q) == Settled(s, q)

\* the script of the reference is not looked up among the registered scripts
TargetScriptUrlUnregistered(path, ref) == IF path # "" THEN path ELSE ScriptUrl(ref)

\* setBreakpoints: the target script URL of the request, "" when there is none
TargetScriptUrl(path, ref) ==
    IF path # "" THEN path
    ELSE IF ref # 0 /\ ref \in scriptsById THEN ScriptUrl(ref)
    ELSE ""

\* setBreakpoints(args): path and ref are args.source.path / .sourceReference,
\* lines is args.lines, bps the length of args.breakpoints
SetBreakpoints(path, ref, lines, bps) ==
    /\ LET url == TargetScriptUrl(path, ref)
           k == Len(ops) + 1
       IN  IF url # ""
           THEN LET s0 == [BpState EXCEPT !.ops = Append(@,
                               [NewOp(url, lines, bps, requestQ) EXCEPT
                                   !.waited = ~StartsNow(BpState, requestQ)])]
                IN  /\ Commit(IF StartsNow(s0, requestQ) THEN StartCycle(s0, k) ELSE s0)
                    /\ requestQ' = EnqueuedQ(requestQ, k)
           ELSE \* utils.errP: the call is rejected and leaves nothing else behind
                /\ ops' = Append(ops, [NewOp("", <<>>, 0, 0) EXCEPT
                                          !.phase = "refused", !.outcome = "error"])
                /\ UNCHANGED <<requestQ, committed, wire, lastAcked, disturbed>>
    /\ UNCHANGED <<scriptsById, target, notifs, queueCut>>

\* utils.promiseTimeout: the timer of call k fires before its chain settled.
\* The timers have one duration, so they fire in issuance order.
Timeout(k) ==
    /\ k \in 1..Len(ops)
    /\ ops[k].outcome = "pending"
    /\ \A j \in 1..(k - 1) : ops[j].outcome # "pending"
    /\ Commit(RunWaiters([BpState EXCEPT !.ops[k].outcome = "timeout"], k))
    /\ UNCHANGED <<requestQ, scriptsById, target, notifs, queueCut>>

\* the target answers the oldest outstanding request, and the bridge handles the answer
TargetResponds ==
    /\ wire # <<>>
    /\ LET req == Head(wire)
           s0 == [BpState EXCEPT !.wire = Tail(wire)]
           url == ops[req.op].url
       IN  IF req.kind = "remove"
           THEN /\ target' = target \ {req.id}
                /\ Commit(RemoveAnswered(s0, req.op))
           ELSE LET response == TargetSetBreakpointByUrl(target, url, req.line)
                IN  /\ target' = IF response.error THEN target
                                 ELSE target \cup {response.breakpointId}
                    /\ Commit(AddAnswered(s0, req.op, response))
    /\ UNCHANGED <<requestQ, scriptsById, notifs, queueCut>>

\* onScriptParsed
OnScriptParsed(scriptId) ==
    /\ scriptsById' = scriptsById \cup {scriptId}
    /\ UNCHANGED <<ops, requestQ, committed, wire, target, lastAcked, disturbed, notifs, queueCut>>

\* onBreakpointResolved: the target resolved one of its breakpoints in a script
OnBreakpointResolved(breakpointId, scriptId) ==
    /\ notifs < MaxNotifs
    /\ notifs' = notifs + 1
    /\ breakpointId \in target
    /\ breakpointId[1] = ScriptUrl(scriptId)
    /\ IF scriptId \notin scriptsById
       THEN UNCHANGED <<committed, disturbed>>
       ELSE LET url == ScriptUrl(scriptId)
                committedBps == committed[url].ids
            IN  /\ committed' = [committed EXCEPT ![url] = ListOf(Append(committedBps, breakpointId))]
                /\ disturbed' = (\E k \in 1..Len(ops) : ops[k].phase = "done")
    /\ UNCHANGED <<ops, requestQ, scriptsById, wire, target, lastAcked, queueCut>>

\* no OutputEvent
Null == "null"

\* a clearTargetContext that leaves the last output event in place
ClearTargetContextKeepsOutput ==
    /\ scriptsById' = {}
    /\ committed' = EmptyMap
    /\ requestQ' = 0
    /\ lastOutputEvent' = lastOutputEvent
    /\ lastAcked' = [u \in MapKeys |-> <<>>]
    /\ disturbed' = (\E k \in 1..Len(ops) : ops[k].phase = "done")
    /\ queueCut' = (queueCut \/ \E k \in 1..Len(ops) : Unfinished(ops[k]))

\* clearTargetContext
ClearTargetContext ==
    /\ scriptsById' = {}
    /\ committed' = EmptyMap
    /\ requestQ' = 0
    /\ lastOutputEvent' = Null
    /\ lastAcked' = [u \in MapKeys |-> <<>>]
    /\ disturbed' = (\E k \in 1..Len(ops) : ops[k].phase = "done")
    /\ queueCut' = (queueCut \/ \E k \in 1..Len(ops) : Unfinished(ops[k]))

\* onGlobalObjectCleared
OnGlobalObjectCleared ==
    /\ notifs < MaxNotifs
    /\ notifs' = notifs + 1
    /\ ClearTargetContext
    /\ UNCHANGED <<ops, wire, target>>

BpInit ==
    /\ ops = <<>>
    /\ requestQ = 0
    /\ committed = EmptyMap
    /\ scriptsById = {}
    /\ wire = <<>>
    /\ target = {}
    /\ lastAcked = [u \in MapKeys |-> <<>>]
    /\ disturbed = FALSE
    /\ notifs = 0
    /\ queueCut = FALSE

BpNext(maxOps) ==
    \/ BpOnly /\ Len(ops) < maxOps /\ \E req \in Requests : SetBreakpoints(req[1], 0, req[2], Len(req[2]))
    \/ BpOnly /\ Len(ops) < maxOps
              /\ \E ref \in Scripts \cup {0}, lines \in LineLists : SetBreakpoints("", ref, lines, Len(lines))
    \/ BpOnly /\ \E k \in 1..Len(ops) : Timeout(k)
    \/ BpOnly /\ TargetResponds
    \/ BpOnly /\ \E scriptId \in Scripts : OnScriptParsed(scriptId)
    \/ BpOnly /\ \E scriptId \in Scripts, breakpointId \in target :
                    OnBreakpointResolved(breakpointId, scriptId)
    \/ BpOnly /\ OnGlobalObjectCleared

(***************************************************************************)
(* The frame codec.  sendMessage frames a message text as a 4-byte         *)
(* big-endian length N followed by the N bytes of its UTF-16LE encoding;   *)
(* PacketStream._transform reassembles the payloads from the chunks the    *)
(* socket hands over.  Texts are sequences of UTF-16 code units, buffers   *)
(* are sequences of bytes.                                                 *)
(***************************************************************************)
\* number of messages framed in one run
MaxMsgs == 2
\* number of code units of one message text
MaxChars == 2
\* code units: one below and one above 255, so that both bytes of a unit matter
CodeUnits == {65, 300}

Texts == UNION {[1..n -> CodeUnits] : n \in 1..MaxChars}
TextLists == UNION {[1..n -> Texts] : n \in 1..MaxMsgs}

\* Buffer.write(msgStr, 4, length, "utf16le"): low byte first
Utf16le(text) ==
    [i \in 1..(2 * Len(text)) |->
        IF i % 2 = 1 THEN text[(i + 1) \div 2] % 256 ELSE text[i \div 2] \div 256]

\* Buffer.byteLength(msgStr, "utf16le")
ByteLength(text) == 2 * Len(text)

\* Buffer.writeInt32BE(length, 0)
WriteInt32BE(n) == <<(n \div 16777216) % 256, (n \div 65536) % 256, (n \div 256) % 256, n % 256>>

\* Buffer.readInt32BE(0) of a packet of at least four bytes
ReadInt32BE(packet) ==
    (IF packet[1] >= 128 THEN packet[1] - 256 ELSE packet[1]) * 16777216
        + packet[2] * 65536 + packet[3] * 256 + packet[4]

\* the payload sendMessage writes to the socket for one message text
Payload(text) == WriteInt32BE(ByteLength(text)) \o Utf16le(text)

RECURSIVE FrameBytes(_)
\* the concatenated frames of a list of messages
FrameBytes(texts) ==
    IF texts = <<>> THEN <<>> ELSE Payload(Head(texts)) \o FrameBytes(Tail(texts))

\* Buffer.slice(n)
Slice(packet, n) == SubSeq(packet, n + 1, Len(packet))

NoBuffer == [alloc |-> FALSE, length |-> 0, data |-> <<>>]
NewBuffer(length) == [alloc |-> TRUE, length |-> length, data |-> <<>>]

Min(a, b) == IF a <= b THEN a ELSE b

\* readInt32BE(0) needs four bytes; on fewer it throws a RangeError
HeaderMissing(packet) == Len(packet) < 4

RECURSIVE Transform(_, _)
\* PacketStream._transform: the while loop over the packet; d is the decoder
Transform(d, packet) ==
    IF Len(packet) = 0 THEN d
    ELSE IF ~d.buffer.alloc /\ HeaderMissing(packet)
         THEN [d EXCEPT !.threw = TRUE]
         ELSE LET fresh    == ~d.buffer.alloc
                  buffer   == IF fresh THEN NewBuffer(ReadInt32BE(packet)) ELSE d.buffer
                  body     == IF fresh THEN Slice(packet, 4) ELSE packet
                  offset   == Len(buffer.data)
                  copied   == Min(buffer.length - offset, Len(body))
                  filled   == [buffer EXCEPT !.data = @ \o SubSeq(body, 1, copied)]
                  complete == offset + copied = buffer.length
              IN  Transform([d EXCEPT !.buffer = IF complete THEN NoBuffer ELSE filled,
                                      !.pushed = IF complete THEN Append(@, filled.data) ELSE @],
                            Slice(body, copied))

\* the socket hands the next n bytes to the PacketStream as one chunk
CodecChunk(n) ==
    /\ ~codecThrew
    /\ n \in 1..Len(codecRest)
    /\ LET d == Transform([buffer |-> codecBuffer, pushed |-> codecPushed, threw |-> FALSE],
                          SubSeq(codecRest, 1, n))
       IN  /\ codecBuffer' = d.buffer
           /\ codecPushed' = d.pushed
           /\ codecThrew' = d.threw
    /\ codecRest' = Slice(codecRest, n)
    /\ UNCHANGED codecMsgs

CodecInitOf(texts) ==
    /\ codecMsgs = texts
    /\ codecRest = FrameBytes(texts)
    /\ codecBuffer = NoBuffer
    /\ codecPushed = <<>>
    /\ codecThrew = FALSE

CodecIdle == CodecInitOf(<<>>)
CodecInit == \E texts \in TextLists : CodecInitOf(texts)
CodecNext == CodecOnly /\ \E n \in 1..(MaxMsgs * (4 + 2 * MaxChars)) : CodecChunk(n)

(***************************************************************************)
(* The request multiplexer.  IosConnection.sendMessage numbers the         *)
(* requests from 1; ResReqTcpSocket keeps one resolver per id and          *)
(* onMessage hands an inbound message to the resolver stored under its id. *)
(***************************************************************************)
\* number of requests sent in one run
MaxSends == 2
\* number of inbound messages in one run
MaxInbound == 3

\* number of listeners registered in one run
MaxListeners == 3
\* the event names listeners are registered for
EventNames == {"Debugger.paused", "close"}

\* inbound messages: with an id from 1 on, or without id (hasId false, id 0)
Inbound ==
    {message \in [hasId : BOOLEAN, id : 0..(MaxSends + 1), method : {"", "Debugger.paused"}] :
        message.hasId <=> message.id # 0}
\* the inbound messages of the runs with listeners: a notification, a response
\* to the first request, a message with an id that is never sent and a message
\* with the id 0, both with a method name
InboundAny ==
    {[hasId |-> FALSE, id |-> 0, method |-> "Debugger.paused"],
     [hasId |-> TRUE, id |-> 1, method |-> ""],
     [hasId |-> TRUE, id |-> MaxSends + 1, method |-> "Debugger.paused"],
     [hasId |-> TRUE, id |-> 0, method |-> "Debugger.paused"]}

\* if (message.id): an id that is there and is not 0
Truthy(message) == message.hasId /\ message.id # 0

\* emit(name): the listeners registered for name, in the order of registration
ListenersOf(listeners, name) ==
    SelectSeq([j \in 1..Len(listeners) |-> j], LAMBDA j : listeners[j] = name)

\* onMessage keeps the entry it has resolved
DeletedNever(pending, id) == pending

\* _pendingRequests.delete(message.id)
Deleted(pending, id) == pending \ {id}

\* IosConnection.sendMessage -> ResReqTcpSocket.sendMessage (socket attached)
SendMessage ==
    /\ nextId <= MaxSends
    /\ nextId' = nextId + 1
    /\ pendingRequests' = pendingRequests \cup {nextId}
    /\ muxWritten' = IF muxSocket.open THEN Append(muxWritten, nextId) ELSE muxWritten
    /\ UNCHANGED <<muxLog, muxListeners, muxSocket>>

\* ResReqTcpSocket.onMessage
OnMessage(message) ==
    /\ Len(muxLog) < MaxInbound
    /\ muxSocket.open
    /\ LET entry == [message |-> message, sent |-> nextId - 1, resolved |-> {},
                     pending |-> pendingRequests, emitted |-> FALSE, delivered |-> <<>>,
                     registered |-> Len(muxListeners)]
       IN  IF Truthy(message)
           THEN IF message.id \in pendingRequests
                THEN /\ pendingRequests' = Deleted(pendingRequests, message.id)
                     /\ muxLog' = Append(muxLog, [entry EXCEPT !.resolved = {message.id},
                                                               !.pending = pendingRequests'])
                ELSE /\ muxLog' = Append(muxLog, entry)
                     /\ UNCHANGED pendingRequests
           ELSE /\ muxLog' =
                      Append(muxLog,
                             IF message.method # ""
                             THEN [entry EXCEPT !.emitted = TRUE,
                                                !.delivered = ListenersOf(muxListeners,
                                                                          message.method)]
                             ELSE entry)
                /\ UNCHANGED pendingRequests
    /\ UNCHANGED <<nextId, muxWritten, muxListeners, muxSocket>>

\* IosConnection.on: the listener goes on the socket's list for the event name
On(eventName) ==
    /\ Len(muxListeners) < MaxListeners
    /\ muxListeners' = Append(muxListeners, eventName)
    /\ UNCHANGED <<nextId, pendingRequests, muxWritten, muxLog, muxSocket>>

\* the unix socket closes (the peer closed it, or close() destroyed it): its
\* 'close' listener logs and emits 'close'; no data comes in afterwards
SocketClosed ==
    /\ muxSocket.open
    /\ muxSocket' = [open |-> FALSE, delivered |-> ListenersOf(muxListeners, "close")]
    /\ UNCHANGED <<nextId, pendingRequests, muxWritten, muxLog, muxListeners>>

MuxInit ==
    /\ nextId = 1
    /\ pendingRequests = {}
    /\ muxWritten = <<>>
    /\ muxLog = <<>>
    /\ muxListeners = <<>>
    /\ muxSocket = [open |-> TRUE, delivered |-> <<>>]

MuxNext ==
    \/ MuxOnly /\ SendMessage
    \/ MuxOnly /\ \E message \in Inbound : OnMessage(message)

(***************************************************************************)
(* The source map transformer.  SourceMaps is a collaborator: the model    *)
(* gives it one generated script, a.js, whose source map maps the authored *)
(* files app.ts and lib.ts, and which is known once ProcessNewSourceMap    *)
(* has completed for a.js.  A request that the transformer has resolved is *)
(* handed to the adapter's setBreakpoints with its rewritten arguments.    *)
(***************************************************************************)
\* number of setBreakpoints requests given to the transformer in one run
MaxSmtReqs == 2

SmtPaths == AuthoredPaths \cup Urls
SmtRequests == {<<"app.ts", <<5>>>>, <<"app.ts", <<5, 30>>>>, <<"lib.ts", <<5>>>>, <<"a.js", <<10>>>>}
\* the requests of the runs in which two authored files share the generated
\* script and a file is asked for twice, with more and with fewer lines
SmtSharedRequests == {<<"lib.ts", <<5>>>>, <<"lib.ts", <<5, 30>>>>, <<"app.ts", <<5>>>>}

\* the requests of the runs in which one authored file is asked for again
SmtSameFileRequests == {<<"app.ts", <<5>>>>, <<"app.ts", <<5, 30>>>>}
\* the requests of the runs in which a script without source map is parsed
SmtPlainRequests == {<<"lib.ts", <<5>>>>, <<"app.ts", <<5>>>>}
\* the scripts the runtime loads as they are: script 2 is lib.ts itself, it has
\* no sourceMapURL and no sourceMappingURL comment
PlainScripts == {2}

\* path.extname(args.source.path) === ".js"
ExtIsJs(path) == path \in Urls

\* SourceMaps.MapPathFromSource: "" stands for no mapping
MapPathFromSource(maps, path) ==
    IF path \in AuthoredPaths /\ "a.js" \in maps THEN "a.js" ELSE ""

\* SourceMaps.MapFromSource(path, line, 0): app.ts:5 -> a.js:10:4 and no other
\* position of app.ts is mapped; lib.ts is mapped line for line (the identity)
MapFromSource(path, line) ==
    CASE path = "app.ts" /\ line = 5 -> [ok |-> TRUE, line |-> 10, column |-> 4]
      [] path = "lib.ts" -> [ok |-> TRUE, line |-> line, column |-> 0]
      [] OTHER -> [ok |-> FALSE, line |-> 0, column |-> 0]

\* SourceMaps.MapToSource(path, line, column), the reverse direction
MapToSource(path, line, column) ==
    CASE path = "a.js" /\ line = 10 /\ column = 4 -> [ok |-> TRUE, path |-> "app.ts", line |-> 5]
      [] path = "a.js" /\ column = 0 -> [ok |-> TRUE, path |-> "lib.ts", line |-> line]
      [] OTHER -> [ok |-> FALSE, path |-> "", line |-> 0]

\* SourceMaps.AllMappedSources
AllMappedSources(maps, scriptUrl) ==
    IF scriptUrl = "a.js" /\ "a.js" \in maps THEN <<"app.ts", "lib.ts">> ELSE <<>>

\* SourceMaps.FindSourceMapUrlInFile: a.js carries a sourceMappingURL comment
FindSourceMapUrlInFile(scriptUrl) == scriptUrl = "a.js"

NoMappedBPs == [has |-> FALSE, lines |-> <<>>, cols |-> <<>>]

\* ISetBreakpointsArgs as the transformer sees and rewrites them
SmtArgs(path, lines) == [path |-> path, lines |-> lines, cols |-> <<>>, authoredPath |-> ""]

NewSmtReq(path, lines) ==
    [args |-> SmtArgs(path, lines), asked |-> SmtArgs(path, lines), settled |-> FALSE,
     runs |-> <<>>, deferred |-> FALSE, superseded |-> FALSE, recorded |-> FALSE,
     stored |-> SmtArgs(path, lines), op |-> 0, responded |-> FALSE, response |-> <<>>,
     own |-> FALSE]

SmtState ==
    [enabled |-> smtEnabled, reqs |-> smtReqs, pending |-> pendingBreakpointsByPath,
     runtime |-> allRuntimeScriptPaths, maps |-> smtMaps, mapped |-> mappedBPs,
     handed |-> smtHanded]

\* resolve(): the promise of request k is fulfilled, the adapter's turn comes next
SmtResolve(s, k) ==
    [s EXCEPT !.reqs[k].settled = TRUE,
              !.handed = IF s.reqs[k].settled THEN @ ELSE Append(@, k)]

\* _requestSeqToSetBreakpointsArgs.set(requestSeq, JSON.parse(JSON.stringify(args)))
SmtRecord(s, k) == [s EXCEPT !.reqs[k].recorded = TRUE, !.reqs[k].stored = s.reqs[k].args]

RECURSIVE MergeOthers(_, _, _, _)
\* the forEach over AllMappedSources(mappedPath): the cached lines and columns of
\* the other authored files of the generated file are appended
MergeOthers(s, args, argsPath, sources) ==
    IF sources = <<>> THEN args
    ELSE LET sourcePath == Head(sources)
             cached     == s.mapped[sourcePath]
         IN  IF sourcePath = argsPath \/ ~cached.has
             THEN MergeOthers(s, args, argsPath, Tail(sources))
             ELSE MergeOthers(s, [args EXCEPT !.lines = @ \o cached.lines,
                                              !.cols = @ \o cached.cols],
                              argsPath, Tail(sources))

\* a table that keeps the request it holds for the path
PendingEntryKeepsOlder(old, k) == IF old # 0 THEN old ELSE k

\* _pendingBreakpointsByPath.set(argsPath, {resolve, reject, args, requestSeq})
PendingEntry(old, k) == k

\* the entry resolvePendingBreakpoints never finds
HasPendingNever(pending, sourcePath) == FALSE

\* _pendingBreakpointsByPath.has(sourcePath)
HasPending(pending, sourcePath) == pending[sourcePath] # 0

\* SourceMapTransformer.setBreakpoints(args, requestSeq), the promise executor
SmtSetBreakpointsRun(s0, k) ==
    LET args     == s0.reqs[k].args
        argsPath == args.path
        s        == [s0 EXCEPT !.reqs[k].runs = Append(@, [args |-> args, requestSeq |-> k])]
    IN  IF s.enabled /\ argsPath # "" /\ ~ExtIsJs(argsPath)
        THEN LET mappedPath == MapPathFromSource(s.maps, argsPath)
             IN  IF mappedPath # ""
                 THEN LET mappedAt(i)  == MapFromSource(argsPath, args.lines[i])
                          mappedLines == [i \in 1..Len(args.lines) |->
                                             IF mappedAt(i).ok THEN mappedAt(i).line
                                             ELSE args.lines[i]]
                          mappedCols  == [i \in 1..Len(args.lines) |->
                                             IF mappedAt(i).ok THEN mappedAt(i).column ELSE 0]
                          s1 == [s EXCEPT !.mapped[argsPath] =
                                     [has |-> TRUE, lines |-> mappedLines, cols |-> mappedCols]]
                          rewritten == MergeOthers(s1,
                                           [path |-> mappedPath, lines |-> mappedLines,
                                            cols |-> mappedCols, authoredPath |-> argsPath],
                                           argsPath, AllMappedSources(s.maps, mappedPath))
                      IN  SmtResolve(SmtRecord([s1 EXCEPT !.reqs[k].args = rewritten], k), k)
                 ELSE IF argsPath \in s.runtime
                      THEN SmtResolve(SmtRecord(s, k), k)
                      ELSE LET old == s.pending[argsPath]
                               s2  == IF old # 0 /\ old # k
                                      THEN [s EXCEPT !.reqs[old].superseded = TRUE] ELSE s
                           IN  [s2 EXCEPT !.pending[argsPath] = PendingEntry(old, k),
                                          !.reqs[k].deferred = TRUE]
        ELSE SmtResolve(s, k)

\* SourceMapTransformer.resolvePendingBreakpoints
ResolvePendingBreakpoints(s, sourcePath) ==
    IF HasPending(s.pending, sourcePath)
    THEN LET pendingBreakpoint == s.pending[sourcePath]
         IN  SmtSetBreakpointsRun([s EXCEPT !.pending[sourcePath] = 0], pendingBreakpoint)
    ELSE s

\* no pending request is looked at
ResolveAllNone(s, sources) == s

RECURSIVE ResolveAll(_, _)
\* sources.forEach(this.resolvePendingBreakpoints, this)
ResolveAll(s, sources) ==
    IF sources = <<>> THEN s
    ELSE ResolveAll(ResolvePendingBreakpoints(s, Head(sources)), Tail(sources))

\* the generated line of breakpoint i as the target reported it
GeneratedLineReported(args, bp, i) == bp.line

\* the generated line setBreakpointsResponse maps back for breakpoint i
GeneratedLine(args, bp, i) == args.lines[i]

\* response.breakpoints.forEach(bp => { delete bp.column; })
WithoutColumn(breakpoints) ==
    [i \in 1..Len(breakpoints) |->
        [verified |-> breakpoints[i].verified, line |-> breakpoints[i].line]]

\* response.breakpoints.filter((_, i) => i < sourceBPLines.length)
Filtered(breakpoints, sourceBPLines) ==
    SubSeq(breakpoints, 1, IF Len(breakpoints) < Len(sourceBPLines)
                           THEN Len(breakpoints) ELSE Len(sourceBPLines))

\* SourceMapTransformer.setBreakpointsResponse(response, requestSeq) for request k
SetBreakpointsResponse(s, k, breakpoints) ==
    LET args == s.reqs[k].stored
        cached == IF args.authoredPath # "" THEN s.mapped[args.authoredPath] ELSE NoMappedBPs
    IN  IF s.enabled /\ s.reqs[k].recorded /\ args.authoredPath # "" /\ cached.has
        THEN LET kept == Filtered(breakpoints, cached.lines)
                 mapped(i) == MapToSource(args.path, GeneratedLine(args, kept[i], i), args.cols[i])
                 back == [i \in 1..Len(kept) |->
                            [kept[i] EXCEPT !.line = IF mapped(i).ok THEN mapped(i).line ELSE @]]
             IN  [s EXCEPT !.reqs[k].responded = TRUE,
                           !.reqs[k].response = WithoutColumn(back),
                           !.reqs[k].recorded = (kept = <<>>),
                           !.reqs[k].own =
                               (cached.lines = SubSeq(args.lines, 1, Len(s.reqs[k].asked.lines)))]
        ELSE [s EXCEPT !.reqs[k].responded = TRUE,
                       !.reqs[k].response = WithoutColumn(breakpoints)]

RECURSIVE Respond(_, _, _)
\* the adapter's promises that have resolved: the response of each goes through
\* setBreakpointsResponse on its way to the IDE, in the same turn
Respond(s, newOps, k) ==
    IF k > Len(s.reqs) THEN s
    ELSE LET r == s.reqs[k]
         IN  IF r.op # 0 /\ ~r.responded /\ newOps[r.op].outcome = "resolved"
             THEN Respond(SetBreakpointsResponse(s, k, newOps[r.op].result), newOps, k + 1)
             ELSE Respond(s, newOps, k + 1)

SmtCommit(s) ==
    /\ smtReqs' = s.reqs
    /\ pendingBreakpointsByPath' = s.pending
    /\ allRuntimeScriptPaths' = s.runtime
    /\ smtMaps' = s.maps
    /\ mappedBPs' = s.mapped
    /\ smtHanded' = s.handed
    /\ UNCHANGED smtEnabled

\* the IDE's setBreakpoints request reaches the transformer
SmtSetBreakpoints(path, lines) ==
    /\ Len(smtReqs) < MaxSmtReqs
    /\ LET k == Len(smtReqs) + 1
       IN  SmtCommit(SmtSetBreakpointsRun(
               [SmtState EXCEPT !.reqs = Append(@, NewSmtReq(path, lines))], k))
    /\ UNCHANGED <<smtIngesting, bpVars>>

\* the request the transformer resolved goes on to WebKitDebugAdapter.setBreakpoints
SmtHandOver ==
    /\ smtHanded # <<>>
    /\ LET k == Head(smtHanded)
       IN  /\ SetBreakpoints(smtReqs[k].args.path, 0, smtReqs[k].args.lines,
                              Len(smtReqs[k].asked.lines))
           /\ smtReqs' = Respond([SmtState EXCEPT !.reqs[k].op = Len(ops) + 1], ops', 1).reqs
    /\ smtHanded' = Tail(smtHanded)
    /\ UNCHANGED <<smtEnabled, pendingBreakpointsByPath, allRuntimeScriptPaths, smtMaps,
                   smtIngesting, mappedBPs>>

\* Debugger.scriptParsed: onScriptParsed registers the script and fires the
\* scriptParsed event, which SourceMapTransformer.scriptParsed handles (one
\* ProcessNewSourceMap call in progress per script)
SmtScriptParsed(scriptId, sourceMapURL) ==
    /\ ScriptUrl(scriptId) \notin smtIngesting
    /\ OnScriptParsed(scriptId)
    /\ LET scriptUrl == ScriptUrl(scriptId)
       IN  IF smtEnabled
           THEN LET s == [SmtState EXCEPT !.runtime = @ \cup {scriptUrl}]
                IN  IF sourceMapURL \/ FindSourceMapUrlInFile(scriptUrl)
                    THEN /\ SmtCommit(s)
                         /\ smtIngesting' = smtIngesting \cup {scriptUrl}
                    ELSE /\ SmtCommit(ResolvePendingBreakpoints(s, scriptUrl))
                         /\ UNCHANGED smtIngesting
           ELSE UNCHANGED <<smtEnabled, smtReqs, pendingBreakpointsByPath, allRuntimeScriptPaths,
                            smtMaps, smtIngesting, mappedBPs, smtHanded>>

\* ProcessNewSourceMap(scriptUrl, ...) completes: the continuation of scriptParsed
SmtSourceMapProcessed(scriptUrl) ==
    /\ scriptUrl \in smtIngesting
    /\ smtIngesting' = smtIngesting \ {scriptUrl}
    /\ LET s == [SmtState EXCEPT !.maps = @ \cup {scriptUrl}]
       IN  SmtCommit(ResolveAll(s, AllMappedSources(s.maps, scriptUrl)))
    /\ UNCHANGED bpVars

\* Debugger.globalObjectCleared: the adapter's clearTargetContext fires the
\* clearTargetContext event, SourceMapTransformer.clearTargetContext handles it
SmtClearTargetContext ==
    /\ OnGlobalObjectCleared
    /\ allRuntimeScriptPaths' = {}
    /\ UNCHANGED <<smtEnabled, smtReqs, pendingBreakpointsByPath, smtMaps, smtIngesting,
                   mappedBPs, smtHanded>>

\* the target answers; a promise of the adapter that resolves gives its response
SmtTargetResponds ==
    /\ TargetResponds
    /\ smtReqs' = Respond(SmtState, ops', 1).reqs
    /\ UNCHANGED <<smtEnabled, pendingBreakpointsByPath, allRuntimeScriptPaths, smtMaps,
                   smtIngesting, mappedBPs, smtHanded>>

SmtInitOf(enabled) ==
    /\ smtEnabled = enabled
    /\ smtReqs = <<>>
    /\ pendingBreakpointsByPath = [path \in SmtPaths |-> 0]
    /\ allRuntimeScriptPaths = {}
    /\ smtMaps = {}
    /\ smtIngesting = {}
    /\ mappedBPs = [path \in SmtPaths |-> NoMappedBPs]
    /\ smtHanded = <<>>

SmtIdle == SmtInitOf(FALSE)
SmtInit == \E enabled \in BOOLEAN : SmtInitOf(enabled)

SmtNextOf(requests) ==
    \/ SmtOnly /\ \E req \in requests : SmtSetBreakpoints(req[1], req[2])
    \/ SmtOnly /\ SmtHandOver
    \/ SmtOnly /\ \E scriptId \in Scripts, sourceMapURL \in BOOLEAN :
                     SmtScriptParsed(scriptId, sourceMapURL)
    \/ SmtOnly /\ \E scriptUrl \in Urls : SmtSourceMapProcessed(scriptUrl)
    \/ SmtOnly /\ SmtClearTargetContext
    \/ SmtOnly /\ SmtTargetResponds

SmtNext == SmtNextOf(SmtRequests)

(***************************************************************************)
(* Attaching.  On readyForConnection the session makes an IosConnection,   *)
(* registers its handlers on it (setConnection) and calls attach, which    *)
(* tries to connect the Unix socket until an attempt succeeds or the retry *)
(* window is over (retryAsync).  A net.Socket whose connect fails emits    *)
(* 'error' and then 'close'; ResReqTcpSocket turns every 'close' of a      *)
(* socket into its own 'close' event, which the session handles with       *)
(* terminateSession.                                                       *)
(***************************************************************************)
\* number of connection attempts in one run
MaxAttempts == 3

NoAttHistory == [clears |-> 0, deadline |-> FALSE, peerClosed |-> FALSE]

\* the three messages IosConnection.attach sends once attached
EnableMessages == <<"Debugger.enable", "Console.enable", "Debugger.setBreakpointsActive">>

\* ResReqTcpSocket.attach: a new socket, a new _unixSocketAttached
StartAttempt == attSockets' = Append(attSockets, "connecting")

\* readyForConnection handler of processRequest: setConnection, then attach
ReadyForConnection ==
    /\ attachP = "idle"
    /\ webKitConnection' = "set"
    /\ attachP' = "trying"
    /\ StartAttempt
    /\ UNCHANGED <<isSync, attDestroyOn, attCloseQueue, attEndpoint, attEvents, attThrew,
                   attHistory, bpVars, muxVars, smtVars>>

\* the application opens its debug endpoint
EndpointOpens ==
    /\ ~attEndpoint
    /\ attEndpoint' = TRUE
    /\ UNCHANGED <<isSync, webKitConnection, attachP, attSockets, attDestroyOn, attCloseQueue,
                   attEvents, attThrew, attHistory, bpVars, muxVars, smtVars>>

\* attempt i fails: 'error' rejects _unixSocketAttached, 'close' follows
ConnectFails(i) ==
    /\ attSockets[i] = "connecting"
    /\ ~attEndpoint
    /\ attSockets' = [attSockets EXCEPT ![i] = "failed"]
    /\ attCloseQueue' = attCloseQueue \cup {i}
    /\ UNCHANGED <<isSync, webKitConnection, attachP, attDestroyOn, attEndpoint, attEvents,
                   attThrew, attHistory, bpVars, muxVars, smtVars>>

\* attempt i connects: _unixSocketAttached resolves, so does retryAsync; the
\* continuation of IosConnection.attach sends the enable messages, then the
\* continuation in processRequest enables the connection and fires
\* InitializedEvent; a destroy continuation left by close() destroys the socket
ConnectSucceeds(i) ==
    /\ attSockets[i] = "connecting"
    /\ attEndpoint
    /\ attachP = "trying"
    /\ i = Len(attSockets)
    /\ attachP' = "resolved"
    /\ nextId' = nextId + Len(EnableMessages)
    /\ pendingRequests' = pendingRequests \cup (nextId..(nextId + Len(EnableMessages) - 1))
    /\ muxWritten' = muxWritten \o [j \in 1..Len(EnableMessages) |-> nextId + j - 1]
    /\ IF webKitConnection = "set"
       THEN /\ attEvents' = Append(attEvents, "initialized")
            /\ UNCHANGED attThrew
       ELSE /\ attThrew' = TRUE
            /\ UNCHANGED attEvents
    /\ IF i \in attDestroyOn
       THEN /\ attSockets' = [attSockets EXCEPT ![i] = "destroyed"]
            /\ attCloseQueue' = attCloseQueue \cup {i}
       ELSE /\ attSockets' = [attSockets EXCEPT ![i] = "connected"]
            /\ UNCHANGED attCloseQueue
    /\ attDestroyOn' = attDestroyOn \ {i}
    /\ UNCHANGED <<isSync, webKitConnection, attEndpoint, attHistory, muxLog, muxListeners,
                   muxSocket, bpVars, smtVars>>

\* retryAsync: the attempt failed and the window is not over, attach again
Retry ==
    /\ attachP = "trying"
    /\ Len(attSockets) < MaxAttempts
    /\ attSockets[Len(attSockets)] = "failed"
    /\ StartAttempt
    /\ UNCHANGED <<isSync, webKitConnection, attachP, attDestroyOn, attCloseQueue, attEndpoint,
                   attEvents, attThrew, attHistory, bpVars, muxVars, smtVars>>

\* retryAsync: the attempt failed and the window is over, attach is rejected
DeadlineExpires ==
    /\ attachP = "trying"
    /\ attSockets[Len(attSockets)] = "failed"
    /\ attachP' = "rejected"
    /\ attHistory' = [attHistory EXCEPT !.deadline = TRUE]
    /\ UNCHANGED <<isSync, webKitConnection, attSockets, attDestroyOn, attCloseQueue, attEndpoint,
                   attEvents, attThrew, bpVars, muxVars, smtVars>>

\* the peer closes a connected socket
PeerCloses(i) ==
    /\ attSockets[i] = "connected"
    /\ attSockets' = [attSockets EXCEPT ![i] = "closed"]
    /\ attCloseQueue' = attCloseQueue \cup {i}
    /\ attHistory' = [attHistory EXCEPT !.peerClosed = TRUE]
    /\ UNCHANGED <<isSync, webKitConnection, attachP, attDestroyOn, attEndpoint, attEvents,
                   attThrew, bpVars, muxVars, smtVars>>

\* socket i emits 'close': ResReqTcpSocket emits 'close', the session's handler
\* is terminateSession: clearEverything (the contexts are cleared, the
\* connection is closed - socket.destroy() once _unixSocketAttached resolves -
\* and forgotten), then TerminatedEvent unless the request is a sync request
SocketCloses(i) ==
    /\ i \in attCloseQueue
    /\ ClearTargetContext
    /\ allRuntimeScriptPaths' = {}
    /\ attHistory' = [attHistory EXCEPT !.clears = @ + 1]
    /\ LET last == Len(attSockets)
       IN  IF webKitConnection = "set"
           THEN /\ webKitConnection' = "null"
                /\ CASE attSockets[last] = "connected" ->
                          /\ attSockets' = [attSockets EXCEPT ![last] = "destroyed"]
                          /\ attCloseQueue' = (attCloseQueue \ {i}) \cup {last}
                          /\ UNCHANGED attDestroyOn
                     [] attSockets[last] = "connecting" ->
                          /\ attDestroyOn' = attDestroyOn \cup {last}
                          /\ attCloseQueue' = attCloseQueue \ {i}
                          /\ UNCHANGED attSockets
                     [] OTHER ->
                          /\ attCloseQueue' = attCloseQueue \ {i}
                          /\ UNCHANGED <<attSockets, attDestroyOn>>
           ELSE /\ attCloseQueue' = attCloseQueue \ {i}
                /\ UNCHANGED <<webKitConnection, attSockets, attDestroyOn>>
    /\ attEvents' = IF isSync THEN attEvents ELSE Append(attEvents, "terminated")
    /\ UNCHANGED <<isSync, attachP, attEndpoint, attThrew, ops, wire, target, notifs, muxVars,
                   smtEnabled, smtReqs, pendingBreakpointsByPath, smtMaps, smtIngesting,
                   mappedBPs, smtHanded>>

AttInitOf(sync) ==
    /\ isSync = sync
    /\ webKitConnection = "unset"
    /\ attachP = "idle"
    /\ attSockets = <<>>
    /\ attDestroyOn = {}
    /\ attCloseQueue = {}
    /\ attEndpoint = FALSE
    /\ attEvents = <<>>
    /\ attThrew = FALSE
    /\ attHistory = NoAttHistory

AttIdle == AttInitOf(FALSE)
AttInit == \E sync \in BOOLEAN : AttInitOf(sync)

AttNext ==
    \/ AttOnly /\ ReadyForConnection
    \/ AttOnly /\ EndpointOpens
    \/ AttOnly /\ \E i \in 1..Len(attSockets) : ConnectFails(i)
    \/ AttOnly /\ \E i \in 1..Len(attSockets) : ConnectSucceeds(i)
    \/ AttOnly /\ Retry
    \/ AttOnly /\ DeadlineExpires
    \/ AttOnly /\ \E i \in 1..Len(attSockets) : PeerCloses(i)
    \/ AttOnly /\ \E i \in 1..Len(attSockets) : SocketCloses(i)

(***************************************************************************)
(* The session and its connections.  Every readyForConnection signal of    *)
(* the launch collaborator makes a connection, registers the session's     *)
(* handlers on it and attaches it; the connection it replaces is left as   *)
(* it is.  This part follows each connection as a whole: its transport     *)
(* (connecting until an attempt succeeds or the retry window is over), its *)
(* attach promise, and the continuation of processRequest that enables the *)
(* connection and fires InitializedEvent.  A command of the connection is  *)
(* a request whose promise is resolved with the target's response, an      *)
(* error response included (ResReqTcpSocket.onMessage); nothing rejects    *)
(* it.                                                                     *)
(***************************************************************************)
\* number of readyForConnection signals in one run
MaxSignals == 1
\* the same, in the exploration of the sessions that are signalled again
MaxSignalsDeep == 2
\* number of terminateSession calls in one run
MaxTriggers == 3

\* the events the session handles with terminateSession
Triggers == {"close", "error", "detached"}

\* the answers of the target to a command: a result or an error payload
Answers == {"ok", "error"}

\* new IosConnection() / new AndroidConnection()
NewConnection ==
    [sock |-> "connecting", attach |-> "trying", destroyOn |-> FALSE,
     closeEvents |-> 0, chain |-> "waiting", cmdsOn |-> 0, enable |-> "none", active |-> "none"]

\* a terminateSession that fires TerminatedEvent whatever the request is
TerminatedEventsAlways(sync, events) == Append(events, "terminated")

\* terminateSession: TerminatedEvent unless the request is a sync request
TerminatedEvents(sync, events) == IF sync THEN events ELSE Append(events, "terminated")

\* _webKitConnection.close(): socket.destroy() once _unixSocketAttached resolves
CloseConnection(cs, cur) ==
    IF cur = 0 THEN cs
    ELSE CASE cs[cur].sock = "connected" ->
                [cs EXCEPT ![cur].sock = "closed", ![cur].closeEvents = @ + 1]
           [] cs[cur].sock = "connecting" -> [cs EXCEPT ![cur].destroyOn = TRUE]
           [] OTHER -> cs

\* terminateSession, called for the event trigger when the connections are cs:
\* clearEverything (both contexts cleared, the session's connection closed and
\* forgotten), then TerminatedEvent unless the request is a sync request
TerminateSession(cs, trigger) ==
    /\ sesTriggers["close"] + sesTriggers["error"] + sesTriggers["detached"] < MaxTriggers
    /\ ClearTargetContext
    /\ allRuntimeScriptPaths' = {}
    /\ conns' = CloseConnection(cs, sesConnection)
    /\ sesConnection' = 0
    /\ sesEvents' = TerminatedEvents(isSync, sesEvents)
    /\ sesTriggers' = [sesTriggers EXCEPT ![trigger] = @ + 1]
    /\ UNCHANGED <<sesPromise, ops, wire, target, notifs, smtEnabled, smtReqs,
                   pendingBreakpointsByPath, smtMaps, smtIngesting, mappedBPs, smtHanded>>

\* the readyForConnection handler of processRequest: a new connection,
\* setConnection, attach
OnReadyForConnection(maxSignals) ==
    /\ Len(conns) < maxSignals
    /\ conns' = Append(conns, NewConnection)
    /\ sesConnection' = Len(conns) + 1
    /\ UNCHANGED <<sesEvents, sesPromise, sesTriggers, bpVars, smtVars>>

\* the last attempt of connection c fails and the retry window is over:
\* retryAsync rejects, and so does attachPromise, which has no rejection
\* handler; the socket's 'close' is still to come
BudgetExhausted(c) ==
    /\ conns[c].sock = "connecting"
    /\ conns' = [conns EXCEPT ![c].sock = "closed", ![c].attach = "rejected",
                              ![c].destroyOn = FALSE, ![c].closeEvents = @ + 1]
    /\ UNCHANGED <<sesConnection, sesEvents, sesPromise, sesTriggers, bpVars, smtVars>>

\* the continuation of attachPromise in processRequest: enable() and
\* setBreakpointsActive() of _webKitConnection, a TypeError when it is null
EnableConnection(cs, c) ==
    IF sesConnection = 0
    THEN [cs EXCEPT ![c].chain = "threw"]
    ELSE [cs EXCEPT ![c].chain = "enabling", ![c].cmdsOn = sesConnection,
                    ![c].enable = "sent", ![c].active = "sent"]

\* an attempt of connection c connects: attachPromise resolves and its
\* continuation runs; a destroy continuation left by close() destroys the socket
Connects(c) ==
    /\ conns[c].sock = "connecting"
    /\ LET cs == IF conns[c].destroyOn
                 THEN [conns EXCEPT ![c].sock = "closed", ![c].attach = "resolved",
                                    ![c].destroyOn = FALSE, ![c].closeEvents = @ + 1]
                 ELSE [conns EXCEPT ![c].sock = "connected", ![c].attach = "resolved"]
       IN  conns' = EnableConnection(cs, c)
    /\ UNCHANGED <<sesConnection, sesEvents, sesPromise, sesTriggers, bpVars, smtVars>>

\* the target answers a command of the continuation of connection c; once both
\* are answered Promise.all resolves: InitializedEvent, promiseResolve()
CommandAnswered(c, cmd, answer) ==
    /\ conns[c].chain = "enabling"
    /\ conns[c][cmd] = "sent"
    /\ conns[conns[c].cmdsOn].sock = "connected"
    /\ LET cs == [conns EXCEPT ![c][cmd] = answer]
       IN  IF cs[c].enable \in Answers /\ cs[c].active \in Answers
           THEN /\ conns' = [cs EXCEPT ![c].chain = "fired"]
                /\ sesEvents' = Append(sesEvents, "initialized")
                /\ sesPromise' = "resolved"
           ELSE /\ conns' = cs
                /\ UNCHANGED <<sesEvents, sesPromise>>
    /\ UNCHANGED <<sesConnection, sesTriggers, bpVars, smtVars>>

\* the peer closes the socket of connection c
PeerClosesConnection(c) ==
    /\ conns[c].sock = "connected"
    /\ conns' = [conns EXCEPT ![c].sock = "closed", ![c].closeEvents = @ + 1]
    /\ UNCHANGED <<sesConnection, sesEvents, sesPromise, sesTriggers, bpVars, smtVars>>

\* a socket of connection c emits 'close', ResReqTcpSocket emits 'close'
OnClose(c) ==
    /\ conns[c].closeEvents > 0
    /\ TerminateSession([conns EXCEPT ![c].closeEvents = @ - 1], "close")

\* connection c delivers the notification Inspector.detached
OnInspectorDetached(c) ==
    /\ conns[c].sock = "connected"
    /\ TerminateSession(conns, "detached")

\* connection c emits 'error'
OnError(c) ==
    /\ conns[c].sock = "connected"
    /\ TerminateSession(conns, "error")

SesInit ==
    /\ conns = <<>>
    /\ sesConnection = 0
    /\ sesEvents = <<>>
    /\ sesPromise = "pending"
    /\ sesTriggers = [t \in Triggers |-> 0]

SesNext(maxSignals) ==
    \/ SesOnly /\ OnReadyForConnection(maxSignals)
    \/ SesOnly /\ \E c \in 1..Len(conns) : BudgetExhausted(c)
    \/ SesOnly /\ \E c \in 1..Len(conns) : Connects(c)
    \/ SesOnly /\ \E c \in 1..Len(conns), cmd \in {"enable", "active"}, answer \in Answers :
                      CommandAnswered(c, cmd, answer)
    \/ SesOnly /\ \E c \in 1..Len(conns) : PeerClosesConnection(c)
    \/ SesOnly /\ \E c \in 1..Len(conns) : OnClose(c)
    \/ SesOnly /\ \E c \in 1..Len(conns) : OnInspectorDetached(c)
    \/ SesOnly /\ \E c \in 1..Len(conns) : OnError(c)

(***************************************************************************)
(* Pausing, stepping and inspecting.  The target pauses and resumes; its   *)
(* notifications reach the session in order (dbgInbox).  A resume or step  *)
(* command of the bridge that finds the target running is answered with an *)
(* error and causes no Debugger.resumed.  The target answers evaluate and  *)
(* getProperties at once: a request and the continuation that handles its  *)
(* answer are one step.                                                    *)
(***************************************************************************)
\* number of times the target pauses in one run
MaxPauses == 1
\* number of Debugger.paused notifications in the runs with a second pause
MaxPausesDeep == 2
\* number of requests of the IDE (continue/step, evaluate, scopes, variables) in one run
MaxDbgReqs == 2

EXCEPTION_VALUE_ID == "EXCEPTION_VALUE_ID"
\* a value that is undefined
Undefined == "undefined"

\* the reasons of Debugger.paused
Reasons == {"exception", "PauseOnNextStatement", "Breakpoint", "DebuggerStatement"}

\* Runtime.RemoteObject: two primitives and an object
NoData == [type |-> Undefined, value |-> Undefined, objectId |-> Undefined, description |-> Undefined]
Primitive(v) == [type |-> "string", value |-> v, objectId |-> Undefined, description |-> Undefined]
ErrorObject == [type |-> "object", value |-> Undefined, objectId |-> "error:1", description |-> "Error: boom"]
Datas == {NoData, Primitive("boom"), Primitive("bang"), ErrorObject}

\* Debugger.CallFrame: a function of script 1 with its local scope
CallFrame ==
    [callFrameId |-> "frame:0", scriptId |-> 1, this |-> "this:0",
     scopeChain |-> <<[type |-> "local", objectId |-> "scope:0"]>>]
Stacks == {<<>>, <<CallFrame>>}

\* the frame of the caller, and the pauses of the runs with a second pause and
\* with stackTrace requests: always a call stack of two frames
CallerFrame ==
    [callFrameId |-> "frame:1", scriptId |-> 1, this |-> "this:1",
     scopeChain |-> <<[type |-> "local", objectId |-> "scope:1"]>>]
PausedEventArgsDeep ==
    {n \in [reason : {"exception", "Breakpoint"},
            data : {NoData, Primitive("boom"), Primitive("bang")},
            callFrames : {<<CallFrame, CallerFrame>>}] :
        n.data # NoData <=> n.reason = "exception"}

\* Debugger.paused: data comes with an exception only; a primitive is thrown
\* with a call stack or without one
PausedEventArgs ==
    {n \in [reason : Reasons, data : Datas, callFrames : Stacks] :
        /\ n.data # NoData => n.reason = "exception"
        /\ n.callFrames = <<>> => n.data = Primitive("boom")
        /\ n.data = Primitive("bang") => n.callFrames # <<>>}

\* the commands of continue, next, stepIn, stepOut
ResumeCommands == {"Debugger.resume", "Debugger.stepOver", "Debugger.stepInto", "Debugger.stepOut"}

\* the answers of the target to evaluate and getProperties: a primitive, an
\* object, a thrown exception
Results == {Primitive("boom"), ErrorObject, NoData}

\* fireEvent, with the events fired so far kept as their numbers and the last one
NoEvents == [stopped |-> 0, continued |-> 0, last |-> [event |-> "none"]]
FireEvent(events, event) == [events EXCEPT ![event.event] = @ + 1, !.last = event]

\* _currentStack: null while running
NullStack == [null |-> TRUE, frames |-> <<>>]

\* utils.remoteObjectToValue: an object gives a handle reference, a primitive its value
RemoteObjectToValue(object) ==
    IF object.type = "object"
    THEN [value |-> object.description, variableHandleRef |-> object.objectId]
    ELSE [value |-> object.value, variableHandleRef |-> Undefined]

\* a classification that takes every pause without an exception for a step
StoppedReasonStepOnly(reason) == IF reason = "exception" THEN "exception" ELSE "step"

\* onDebuggerPaused: the reason of the StoppedEvent
StoppedReason(reason) ==
    CASE reason = "exception" -> "exception"
      [] reason = "PauseOnNextStatement" -> "pause"
      [] reason = "Breakpoint" -> "breakpoint"
      [] OTHER -> "step"

\* a lookup that takes every script for a parsed one
ScriptIsNotUnknownAlways(scriptId) == TRUE

\* scriptIsNotUnknown
ScriptIsNotUnknown(scriptId) == scriptId \in scriptsById

\* a test that never finds the marker of the exception value
IsExceptionValueNever(handle) == FALSE

\* variables: handle.objectId === EXCEPTION_VALUE_ID
IsExceptionValue(handle) == handle.objectId = EXCEPTION_VALUE_ID

\* WebKitDebugAdapter.remoteObjectToValue: the value and the handles after it
ToValue(handles, object) ==
    LET v == RemoteObjectToValue(object)
    IN  IF v.variableHandleRef # Undefined
        THEN [value |-> v.value, variablesReference |-> Len(handles) + 1,
              handles |-> Append(handles, [objectId |-> v.variableHandleRef, thisObj |-> Undefined])]
        ELSE [value |-> v.value, variablesReference |-> 0, handles |-> handles]

\* propertyDescriptorToVariable for a property with a value
PropertyDescriptorToVariable(handles, name, object) ==
    LET v == ToValue(handles, object)
    IN  [variable |-> [name |-> name, value |-> v.value, variablesReference |-> v.variablesReference],
         handles |-> v.handles]

\* the requests the IDE has made so far
DbgReqs == dbgHistory.requests

\* no Debugger.paused yet
NoPause == [reason |-> Undefined, data |-> NoData, callFrames |-> <<>>]

\* the target pauses
TargetPausesWithin(n, maxPauses) ==
    /\ ~targetPaused
    /\ dbgHistory.pauses < maxPauses
    /\ dbgHistory' = [dbgHistory EXCEPT !.pauses = @ + 1]
    /\ targetPaused' = TRUE
    /\ dbgInbox' = Append(dbgInbox, [method |-> "Debugger.paused", params |-> n, byBridge |-> FALSE])
    /\ UNCHANGED <<currentStack, expectingResumedEvent, exceptionValueObject, variableHandles,
                   dbgEvents, dbgSent, lastRequest, bpVars>>

TargetPauses(n) == TargetPausesWithin(n, MaxPauses)

\* the target is resumed by another client, or by itself
TargetResumes ==
    /\ targetPaused
    /\ targetPaused' = FALSE
    /\ dbgInbox' = Append(dbgInbox, [method |-> "Debugger.resumed", params |-> Undefined, byBridge |-> FALSE])
    /\ UNCHANGED <<currentStack, expectingResumedEvent, exceptionValueObject, variableHandles,
                   dbgEvents, dbgSent, lastRequest, dbgHistory, bpVars>>

\* continue, next, stepIn, stepOut: the flag, then the command; a paused target
\* resumes, a running one refuses the command
Continue(command) ==
    /\ DbgReqs < MaxDbgReqs
    /\ expectingResumedEvent' = TRUE
    /\ dbgSent' = dbgSent + 1
    /\ targetPaused' = FALSE
    /\ dbgInbox' = IF targetPaused
                   THEN Append(dbgInbox, [method |-> "Debugger.resumed", params |-> Undefined,
                                          byBridge |-> TRUE])
                   ELSE dbgInbox
    /\ lastRequest' = [kind |-> "continue"]
    /\ dbgHistory' = [dbgHistory EXCEPT !.requests = @ + 1]
    /\ UNCHANGED <<currentStack, exceptionValueObject, variableHandles, dbgEvents, bpVars>>

\* onDebuggerPaused
OnDebuggerPaused(notification) ==
    LET wraps == /\ notification.reason = "exception"
                 /\ notification.data # NoData
                 /\ Len(notification.callFrames) > 0
        remoteObjValue == RemoteObjectToValue(notification.data)
        isObject == remoteObjValue.variableHandleRef # Undefined
        exceptionText == CASE wraps /\ isObject -> notification.data.description
                           [] wraps /\ ~isObject -> notification.data.value
                           [] OTHER -> Undefined
        scopeObject == IF isObject THEN notification.data.objectId ELSE EXCEPTION_VALUE_ID
        frames == IF wraps
                  THEN [notification.callFrames EXCEPT ![1].scopeChain =
                           <<[type |-> "Exception", objectId |-> scopeObject]>> \o @]
                  ELSE notification.callFrames
        event == [event |-> "stopped", reason |-> StoppedReason(notification.reason),
                  text |-> exceptionText]
    IN  /\ currentStack' = [null |-> FALSE, frames |-> frames]
        /\ exceptionValueObject' = IF wraps /\ ~isObject THEN notification.data
                                   ELSE exceptionValueObject
        /\ dbgEvents' = FireEvent(dbgEvents, event)
        /\ dbgHistory' = [dbgHistory EXCEPT !.lastPaused = notification]
        /\ UNCHANGED <<expectingResumedEvent, variableHandles, dbgSent, targetPaused, lastRequest,
                       bpVars>>

\* onDebuggerResumed
OnDebuggerResumed ==
    /\ currentStack' = NullStack
    /\ IF ~expectingResumedEvent
       THEN /\ dbgEvents' = FireEvent(dbgEvents, [event |-> "continued", reason |-> Undefined,
                                                  text |-> Undefined])
            /\ UNCHANGED expectingResumedEvent
       ELSE /\ expectingResumedEvent' = FALSE
            /\ UNCHANGED dbgEvents
    /\ UNCHANGED <<exceptionValueObject, variableHandles, dbgSent, targetPaused, lastRequest,
                   dbgHistory, bpVars>>

\* the connection emits the next notification of the target
Notified ==
    /\ dbgInbox # <<>>
    /\ dbgInbox' = Tail(dbgInbox)
    /\ IF Head(dbgInbox).method = "Debugger.paused"
       THEN OnDebuggerPaused(Head(dbgInbox).params)
       ELSE OnDebuggerResumed

\* evaluate: on the call frame when paused - refused when the frame's script is
\* unknown -, in the global context otherwise; the continuation gets the target's
\* answer result (NoData: the expression threw)
Evaluate(frameId, result) ==
    /\ DbgReqs < MaxDbgReqs
    /\ LET paused == ~currentStack.null
           hasFrame == frameId < Len(currentStack.frames)
           scriptId == currentStack.frames[frameId + 1].scriptId
           throws == paused /\ (~hasFrame \/ ~ScriptIsNotUnknown(scriptId))
           command == IF paused THEN "Debugger.evaluateOnCallFrame" ELSE "Runtime.evaluate"
           v == ToValue(variableHandles, result)
       IN  /\ dbgSent' = IF throws THEN dbgSent ELSE dbgSent + 1
           /\ variableHandles' = IF throws \/ result = NoData THEN variableHandles ELSE v.handles
           /\ lastRequest' = [kind |-> "evaluate",
                               sent |-> IF throws THEN Undefined ELSE command,
                               outcome |-> CASE throws -> "threw"
                                             [] result = NoData -> "rejected"
                                             [] OTHER -> "resolved"]
           /\ dbgHistory' = [dbgHistory EXCEPT !.requests = @ + 1,
                                               !.refused = @ \/ (throws /\ hasFrame)]
    /\ UNCHANGED <<currentStack, expectingResumedEvent, exceptionValueObject,
                   dbgEvents, dbgInbox, targetPaused, bpVars>>

\* scopes: a handle for the object of every scope of the frame
Scopes(frameId) ==
    /\ DbgReqs < MaxDbgReqs
    /\ ~currentStack.null
    /\ frameId < Len(currentStack.frames)
    /\ LET frame == currentStack.frames[frameId + 1]
           chain == frame.scopeChain
           scopeHandle(i) == [objectId |-> chain[i].objectId,
                              thisObj |-> IF i = 1 THEN frame.this ELSE Undefined]
       IN  /\ variableHandles' = variableHandles \o [i \in 1..Len(chain) |-> scopeHandle(i)]
           /\ lastRequest' = [kind |-> "scopes",
                               scopes |-> [i \in 1..Len(chain) |->
                                              [name |-> chain[i].type,
                                               variablesReference |-> Len(variableHandles) + i]]]
    /\ dbgHistory' =
          [dbgHistory EXCEPT !.requests = @ + 1,
                             !.marker = IF /\ @.ref = 0
                                           /\ currentStack.frames[frameId + 1].scopeChain[1].objectId
                                                = EXCEPTION_VALUE_ID
                                        THEN [ref |-> Len(variableHandles) + 1,
                                              data |-> dbgHistory.lastPaused.data]
                                        ELSE @]
    /\ UNCHANGED <<currentStack, expectingResumedEvent, exceptionValueObject, dbgEvents, dbgSent,
                   dbgInbox, targetPaused, bpVars>>

\* variables: the saved exception value for its marker; for any other handle two
\* getProperties requests, which the target answers with the one property x of
\* value result (NoData: with errors), and 'this' first
Variables(variablesReference, result) ==
    /\ DbgReqs < MaxDbgReqs
    /\ variablesReference \in 1..Len(variableHandles)
    /\ LET handle == variableHandles[variablesReference]
           exception == PropertyDescriptorToVariable(variableHandles, "exception",
                                                     exceptionValueObject)
           x == PropertyDescriptorToVariable(variableHandles, "x", result)
           props == IF result = NoData THEN <<>> ELSE <<x.variable>>
           handles == IF result = NoData THEN variableHandles ELSE x.handles
           this == PropertyDescriptorToVariable(handles, "this", Primitive(handle.thisObj))
       IN  IF IsExceptionValue(handle)
           THEN /\ variableHandles' = exception.handles
                /\ lastRequest' = [kind |-> "variables", handle |-> handle,
                                    after |-> dbgHistory.lastPaused, sent |-> 0,
                                    variables |-> <<exception.variable>>]
                /\ UNCHANGED dbgSent
           ELSE /\ dbgSent' = dbgSent + 2
                /\ variableHandles' = handles
                /\ lastRequest' =
                       [kind |-> "variables", handle |-> handle,
                        after |-> dbgHistory.lastPaused, sent |-> 2,
                        variables |-> IF handle.thisObj # Undefined
                                      THEN <<this.variable>> \o props ELSE props]
    /\ dbgHistory' = [dbgHistory EXCEPT !.requests = @ + 1]
    /\ UNCHANGED <<currentStack, expectingResumedEvent, exceptionValueObject, dbgEvents,
                   dbgInbox, targetPaused, bpVars>>

\* stackTrace: the frames from startFrame on, levels of them when levels is
\* given (0 stands for a request without levels, falsy as well); every frame
\* gets the id startFrame + its index in the list returned; the source of a
\* frame is the script's url or a placeholder; thrown when _currentStack is null
StackTrace(startFrame, levels) ==
    /\ DbgReqs < MaxDbgReqs
    /\ IF currentStack.null
       THEN lastRequest' = [kind |-> "stackTrace", outcome |-> "threw"]
       ELSE LET frames == currentStack.frames
                kept == {i \in 0..(Len(frames) - 1) :
                            levels # 0 => startFrame <= i /\ i < startFrame + levels}
                first == IF levels # 0 THEN startFrame ELSE 0
                stack == [j \in 1..Cardinality(kept) |-> frames[first + j]]
                source(callFrame) ==
                    IF ScriptIsNotUnknown(callFrame.scriptId)
                    THEN IF ScriptUrl(callFrame.scriptId) # "" THEN ScriptUrl(callFrame.scriptId)
                         ELSE "anonymous source"
                    ELSE "unknown source"
            IN  lastRequest' =
                   [kind |-> "stackTrace", outcome |-> "resolved",
                    startFrame |-> startFrame, levels |-> levels,
                    callStack |-> [i \in 1..Len(frames) |-> frames[i].callFrameId],
                    stackFrames |-> [i \in 1..Len(stack) |->
                                       [id |-> startFrame + (i - 1),
                                        callFrameId |-> stack[i].callFrameId,
                                        source |-> source(stack[i])]],
                    totalFrames |-> Len(frames)]
    /\ dbgHistory' = [dbgHistory EXCEPT !.requests = @ + 1]
    /\ UNCHANGED <<currentStack, expectingResumedEvent, exceptionValueObject, variableHandles,
                   dbgEvents, dbgSent, dbgInbox, targetPaused, bpVars>>

\* onGlobalObjectCleared, any number of times
GlobalObjectCleared ==
    /\ ClearTargetContext
    /\ UNCHANGED <<ops, wire, target, notifs, dbgVars>>

DbgInit ==
    /\ currentStack = NullStack
    /\ expectingResumedEvent = FALSE
    /\ exceptionValueObject = NoData
    /\ variableHandles = <<>>
    /\ dbgEvents = NoEvents
    /\ dbgSent = 0
    /\ dbgInbox = <<>>
    /\ targetPaused = FALSE
    /\ lastRequest = [kind |-> "none"]
    /\ dbgHistory = [pauses |-> 0, requests |-> 0, refused |-> FALSE, lastPaused |-> NoPause,
                     marker |-> [ref |-> 0, data |-> NoData]]

DbgNextOf(maxPauses, pausedEventArgs) ==
    \/ DbgOnly /\ \E n \in pausedEventArgs : TargetPausesWithin(n, maxPauses)
    \/ DbgOnly /\ TargetResumes
    \/ DbgOnly /\ Notified
    \/ DbgOnly /\ \E command \in ResumeCommands : Continue(command)
    \/ DbgOnly /\ \E result \in Results : Evaluate(0, result)
    \/ DbgOnly /\ Scopes(0)
    \/ DbgOnly /\ \E ref \in 1..Len(variableHandles), result \in Results : Variables(ref, result)
    \/ DbgOnly /\ \E scriptId \in Scripts : OnScriptParsed(scriptId) /\ UNCHANGED dbgVars
    \/ DbgOnly /\ GlobalObjectCleared

DbgNext == DbgNextOf(MaxPauses, PausedEventArgs)

(***************************************************************************)
(* The specifications: one per part, the other parts idle.                 *)
(***************************************************************************)
(***************************************************************************)
(* Console output.  A console message that formatConsoleMessage renders    *)
(* is fired as an OutputEvent and kept in _lastOutputEvent; a repeat count *)
(* update fires the kept event again.                                      *)
(***************************************************************************)
\* number of OutputEvents fired in one run
MaxOutputs == 3
\* number of setBreakpoints calls in the runs with console output
MaxOutOps == 1

\* the texts formatConsoleMessage gives: "" stands for none
MessageTexts == {"", "hello"}

NoCtxHistory == [quiet |-> FALSE, outputs |-> 0, repeats |-> 0]

\* onConsoleMessage
OnConsoleMessage(formattedMessage) ==
    /\ outputEvents < MaxOutputs
    /\ IF formattedMessage # ""
       THEN /\ lastOutputEvent' = formattedMessage
            /\ outputEvents' = outputEvents + 1
       ELSE UNCHANGED <<lastOutputEvent, outputEvents>>
    /\ ctxHistory' = [ctxHistory EXCEPT !.quiet = FALSE]
    /\ UNCHANGED bpVars

\* onMessageRepeatCountUpdated
OnMessageRepeatCountUpdated ==
    /\ outputEvents < MaxOutputs
    /\ outputEvents' = IF lastOutputEvent # Null THEN outputEvents + 1 ELSE outputEvents
    /\ ctxHistory' = [ctxHistory EXCEPT !.repeats = IF ctxHistory.quiet THEN 1 ELSE 0]
    /\ UNCHANGED <<lastOutputEvent, bpVars>>

\* Debugger.globalObjectCleared
OutGlobalObjectCleared ==
    /\ OnGlobalObjectCleared
    /\ ctxHistory' = [quiet |-> TRUE, outputs |-> outputEvents, repeats |-> 0]
    /\ UNCHANGED outputEvents

OutInit ==
    /\ lastOutputEvent = Null
    /\ outputEvents = 0
    /\ ctxHistory = NoCtxHistory

OutNext ==
    \/ OutOnly /\ \E formattedMessage \in MessageTexts : OnConsoleMessage(formattedMessage)
    \/ OutOnly /\ OnMessageRepeatCountUpdated
    \/ OutOnly /\ OutGlobalObjectCleared
    \/ OutOnly /\ UNCHANGED outVars /\ \E scriptId \in Scripts : OnScriptParsed(scriptId)
    \/ OutOnly /\ UNCHANGED outVars /\ Len(ops) < MaxOutOps
               /\ \E req \in Requests : SetBreakpoints(req[1], 0, req[2], Len(req[2]))
    \/ OutOnly /\ UNCHANGED outVars /\ TargetResponds

Init == BpInit /\ CodecIdle /\ MuxInit /\ SmtIdle /\ AttIdle /\ SesInit /\ DbgInit /\ OutInit
Next == BpNext(MaxOps)
Spec == Init /\ [][Next]_vars

\* the breakpoint manager explored to three calls
NextDeep == BpNext(MaxOpsDeep)
SpecDeep == Init /\ [][NextDeep]_vars

\* number of setBreakpoints calls in the runs with requests by sourceReference
MaxRefOps == 3
\* a script that was parsed with an empty url
AnonymousScripts == {3}

\* the breakpoint manager with requests by path for b.js and requests by
\* sourceReference: no reference, the reference of script 1 (a.js) and the
\* reference of the anonymous script, each registered or not
NextByReference ==
    \/ BpOnly /\ Len(ops) < MaxRefOps /\ SetBreakpoints("b.js", 0, <<10>>, 1)
    \/ BpOnly /\ Len(ops) < MaxRefOps
              /\ \E ref \in Scripts \cup AnonymousScripts \cup {0} : SetBreakpoints("", ref, <<10>>, 1)
    \/ BpOnly /\ TargetResponds
    \/ BpOnly /\ \E scriptId \in Scripts \cup AnonymousScripts : OnScriptParsed(scriptId)
SpecByReference == Init /\ [][NextByReference]_vars

InitCodec == BpInit /\ CodecInit /\ MuxInit /\ SmtIdle /\ AttIdle /\ SesInit /\ DbgInit /\ OutInit
NextCodec == CodecNext
SpecCodec == InitCodec /\ [][NextCodec]_vars

InitMux == BpInit /\ CodecIdle /\ MuxInit /\ SmtIdle /\ AttIdle /\ SesInit /\ DbgInit /\ OutInit
NextMux == MuxNext
SpecMux == InitMux /\ [][NextMux]_vars

\* the multiplexer with listeners, with messages of any id and with the socket
\* closing
NextMuxEvents ==
    \/ MuxOnly /\ SendMessage
    \/ MuxOnly /\ \E message \in InboundAny : OnMessage(message)
    \/ MuxOnly /\ \E eventName \in EventNames : On(eventName)
    \/ MuxOnly /\ SocketClosed
SpecMuxEvents == InitMux /\ [][NextMuxEvents]_vars

\* the multiplexer on a socket that closes; no step that stays possible is put
\* off for ever
NextMuxClose ==
    \/ MuxNext
    \/ MuxOnly /\ SocketClosed
SpecMuxClose == InitMux /\ [][NextMuxClose]_vars /\ WF_vars(NextMuxClose)

InitSmt == BpInit /\ CodecIdle /\ MuxInit /\ SmtInit /\ AttIdle /\ SesInit /\ DbgInit /\ OutInit
NextSmt == SmtNext
SpecSmt == InitSmt /\ [][NextSmt]_vars

\* two authored files of one generated script, a file asked for twice
NextSmtShared == SmtNextOf(SmtSharedRequests)
SpecSmtShared == InitSmt /\ [][NextSmtShared]_vars

\* the transformer with a script that has a source map and one that has none
NextSmtPlain ==
    \/ SmtNextOf(SmtPlainRequests)
    \/ SmtOnly /\ \E scriptId \in PlainScripts : SmtScriptParsed(scriptId, FALSE)
SpecSmtPlain == InitSmt /\ [][NextSmtPlain]_vars

\* the transformer with requests for one authored file, when its continuations
\* run in the end: a resolved request is handed to the adapter and the
\* ingestion of a source map completes
NextSmtFair == SmtNextOf(SmtSameFileRequests)
SpecSmtFair ==
    /\ InitSmt /\ [][NextSmtFair]_vars
    /\ WF_vars(SmtOnly /\ SmtHandOver)
    /\ WF_vars(SmtOnly /\ \E scriptUrl \in Urls : SmtSourceMapProcessed(scriptUrl))

InitAttach == BpInit /\ CodecIdle /\ MuxInit /\ SmtIdle /\ AttInit /\ SesInit /\ DbgInit /\ OutInit
NextAttach == AttNext
SpecAttach == InitAttach /\ [][NextAttach]_vars

InitSession == BpInit /\ CodecIdle /\ MuxInit /\ SmtIdle /\ AttInit /\ SesInit /\ DbgInit /\ OutInit
NextSession == SesNext(MaxSignals)
SpecSession == InitSession /\ [][NextSession]_vars
\* the session as long as something can happen: a session with nothing left to
\* do stays as it is for ever
SpecSessionFair == InitSession /\ [][NextSession]_vars /\ WF_vars(NextSession)

InitDebug == BpInit /\ CodecIdle /\ MuxInit /\ SmtIdle /\ AttIdle /\ SesInit /\ DbgInit /\ OutInit
NextDebug == DbgNext
SpecDebug == InitDebug /\ [][NextDebug]_vars

\* the paused session with a second pause and with stackTrace requests
NextDebugDeep ==
    \/ DbgNextOf(MaxPausesDeep, PausedEventArgsDeep)
    \/ DbgOnly /\ \E startFrame \in 0..1, levels \in 0..2 : StackTrace(startFrame, levels)
SpecDebugDeep == InitDebug /\ [][NextDebugDeep]_vars

\* the session signalled more than once
NextSessionDeep == SesNext(MaxSignalsDeep)
SpecSessionDeep == InitSession /\ [][NextSessionDeep]_vars

\* console output, with scripts and breakpoints to be cleared
NextOutput == OutNext
SpecOutput == Init /\ [][NextOutput]_vars

\* the session's connection is connected: the target's notifications arrive
Attached == sesConnection # 0 /\ conns[sesConnection].sock = "connected"

\* a session that pauses and ends
NextSessionEnd ==
    \/ SesNext(MaxSignals)
    \/ DbgOnly /\ Attached /\ \E n \in PausedEventArgs : TargetPauses(n)
    \/ DbgOnly /\ Attached /\ TargetResumes
    \/ DbgOnly /\ Attached /\ Notified
SpecSessionEnd == InitSession /\ [][NextSessionEnd]_vars

(***************************************************************************)
(* Properties of the breakpoint manager.                                   *)
(***************************************************************************)
NoTimeouts == \A k \in 1..Len(ops) : ops[k].outcome # "timeout"
Enqueued(k) == ops[k].phase # "refused"
RemovesOf(k) == {i \in 1..Len(wire) : wire[i].op = k /\ wire[i].kind = "remove"}

\* C1: when the target answers every request before the timeout (and the
\* queue is not reset under an unfinished call), the calls issued while a
\* cycle runs are executed one cycle each, in issuance order, one at a time:
\* at most one cycle is in flight, a cycle starts only when every call issued
\* before it has finished, a call waits only behind a cycle in flight, and
\* every request outstanding at the target belongs to the cycle in flight.
SerializedCycles ==
    (NoTimeouts /\ ~queueCut) =>
        /\ Cardinality({k \in 1..Len(ops) : InFlight(ops[k])}) <= 1
        /\ \A k \in 1..Len(ops) :
              /\ ops[k].runs <= 1
              /\ ops[k].phase # "threw"
              /\ ops[k].runs = (IF ops[k].phase \in {"queued", "refused"} THEN 0 ELSE 1)
              /\ (Enqueued(k) /\ ops[k].runs = 1) =>
                    \A j \in 1..(k - 1) : Enqueued(j) => ops[j].phase = "done"
              /\ ops[k].phase = "queued" => \E j \in 1..(k - 1) : InFlight(ops[j])
        /\ \A i \in 1..Len(wire) : InFlight(ops[wire[i].op])

\* two calls, the second issued while the first cycle ran, both executed
WitnessSerializedCycles ==
    /\ NoTimeouts /\ ~queueCut
    /\ Len(ops) >= 2
    /\ ops[1].phase = "done" /\ ops[2].phase = "done"
    /\ ops[2].waited
    /\ ops[1].resps # <<>> /\ ops[2].resps # <<>>

\* C2: whenever no cycle is in flight, the committed id list of every URL is
\* the list of ids acknowledged for the last successfully completed
\* setBreakpoints request for that URL in the current execution context: no
\* extra id, no duplicate, no id of an older request.  Stated for the runs in
\* which no call has timed out.
CommittedIsLastAcknowledged ==
    (NoTimeouts /\ \A k \in 1..Len(ops) : ~InFlight(ops[k])) =>
        \A u \in Urls : committed[u].ids = lastAcked[u]

\* C6: a timeout rejects the caller of the call that timed out and no other
\* caller (a caller is rejected by its own timeout only, or for lack of a
\* target script), and every call queued behind a settled call has started.
TimeoutRejectsOnlyItsCaller ==
    ~queueCut =>
        \A k \in 1..Len(ops) :
            /\ ops[k].outcome = "error" => ops[k].phase = "refused"
            /\ ops[k].phase = "queued" => ops[k].waitsOn # 0 /\ ops[ops[k].waitsOn].outcome = "pending"

\* C8: a cycle that clears a URL holding K committed ids sends K remove
\* requests, one per id in list order, each after the answer to the one
\* before: at most one remove request of a cycle is outstanding, it is the
\* request for the next id of the list, and no add is sent before the last
\* remove is answered.
SequentialRemoves ==
    \A k \in 1..Len(ops) :
        LET o == ops[k]
        IN  /\ Cardinality(RemovesOf(k)) <= 1
            /\ \A i \in RemovesOf(k) :
                  /\ o.phase = "clearing"
                  /\ wire[i].idx = o.sent
                  /\ wire[i].id = o.snap[o.sent]
                  /\ o.acked = o.sent - 1
            /\ RemovesOf(k) = {} => o.acked = o.sent
            /\ o.sent <= Len(o.snap)
            /\ o.cleared => o.sent = Len(o.snap) /\ o.acked = Len(o.snap)
            /\ (o.phase \in {"adding", "done"} /\ o.snap # <<>>) => o.cleared

\* a cycle has cleared a URL that held two committed ids
WitnessSequentialRemoves ==
    \E k \in 1..Len(ops) : ops[k].cleared /\ Len(ops[k].snap) >= 2 /\ ops[k].phase = "done"

\* C9: the result has one entry per requested breakpoint, in request order:
\* entry i is verified at the target's resolved line and column when the i-th
\* add succeeded with a location, and unverified at the i-th requested line,
\* column 0, when the target refused the i-th add.
ResultPerRequestedBreakpoint ==
    \A k \in 1..Len(ops) :
        LET o == ops[k]
        IN  o.phase = "done" =>
                /\ Len(o.result) = o.bps
                /\ \A i \in 1..o.bps :
                      LET r == o.resps[i]
                          b == o.result[i]
                      IN  /\ ~r.error => r.breakpointId = BpId(o.url, o.lines[i])
                          /\ LineKind(o.lines[i]) = "reject" => r.error
                          /\ r.error =>
                                b = [verified |-> FALSE, line |-> o.lines[i], column |-> 0]
                          /\ (~r.error /\ r.locations # <<>>) =>
                                b = [verified |-> TRUE,
                                     line |-> r.locations[1].lineNumber,
                                     column |-> r.locations[1].columnNumber]

\* lines [10, 20], the second add refused
WitnessResultPerRequestedBreakpoint ==
    \E k \in 1..Len(ops) :
        /\ ops[k].phase = "done"
        /\ ops[k].lines = <<10, 20>>
        /\ ops[k].result = <<[verified |-> TRUE, line |-> 11, column |-> 3],
                             [verified |-> FALSE, line |-> 20, column |-> 0]>>

\* C10: the same request (same URL, same lines) submitted twice in a row, no
\* notification processed in between, no call timed out and the queue not
\* reset under an unfinished call, leaves the same
\* committed id list after the second call as after the first, and both calls
\* return the same result.
IdempotentSetBreakpoints ==
    (NoTimeouts /\ ~queueCut) =>
        \A k \in 2..Len(ops) :
            LET a == ops[k - 1]
                b == ops[k]
            IN  (/\ a.phase = "done" /\ b.phase = "done"
                 /\ a.url = b.url /\ a.lines = b.lines
                 /\ b.clean)
                => /\ b.result = a.result
                   /\ b.after = a.after
                   /\ b.after = CommittedBpIds(b.resps)

\* the second of two equal requests cleared what the first committed and set it again
WitnessIdempotentSetBreakpoints ==
    /\ NoTimeouts /\ ~queueCut
    /\ \E k \in 2..Len(ops) :
          /\ ops[k - 1].phase = "done" /\ ops[k].phase = "done"
          /\ ops[k - 1].url = ops[k].url /\ ops[k - 1].lines = ops[k].lines
          /\ ops[k].clean /\ ops[k].cleared
          /\ ops[k].snap = ops[k - 1].after /\ Len(ops[k].snap) >= 2
          /\ committed[ops[k].url].ids = ops[k].after

\* C3: for any message list framed as sendMessage frames it and any splitting
\* of the frame bytes into non-empty chunks, PacketStream pushes exactly the
\* original payloads, each once and in order: it never fails on a chunk, what
\* it has pushed is always a prefix of the payloads, and once the last chunk
\* is handed over it has pushed them all.
FrameRoundTrip ==
    /\ ~codecThrew
    /\ Len(codecPushed) <= Len(codecMsgs)
    /\ \A i \in 1..Len(codecPushed) : codecPushed[i] = Utf16le(codecMsgs[i])
    /\ codecRest = <<>> => Len(codecPushed) = Len(codecMsgs)

\* the request an inbound message matches, judged from the history alone: its
\* id was sent before the message came in and no earlier message resolved it
PendingBefore(i) ==
    /\ muxLog[i].message.id \in 1..muxLog[i].sent
    /\ \A j \in 1..(i - 1) : muxLog[i].message.id \notin muxLog[j].resolved

\* C7: an inbound message whose id matches a pending request resolves exactly
\* that request and removes its entry; any other message resolves nothing;
\* over the whole run every resolver is invoked at most once and no message
\* resolves more than one request.
ResolvedExactlyOnce ==
    /\ \A i \in 1..Len(muxLog) :
          /\ muxLog[i].resolved = IF PendingBefore(i) THEN {muxLog[i].message.id} ELSE {}
          /\ muxLog[i].resolved \cap pendingRequests = {}
    /\ \A i, j \in 1..Len(muxLog) : i < j => muxLog[i].resolved \cap muxLog[j].resolved = {}

\* responses out of order, then a second response with an id already resolved
WitnessResolvedExactlyOnce ==
    /\ Len(muxLog) = 3
    /\ muxLog[1].resolved = {2}
    /\ muxLog[2].resolved = {1}
    /\ muxLog[3].message.id = 2
    /\ muxLog[3].resolved = {}

\* the ids of the breakpoints the adapter call made for request k asked for and
\* the target does not refuse
AskedIds(k) ==
    LET o == ops[smtReqs[k].op]
    IN  {BpId(o.url, o.lines[i]) : i \in {j \in 1..o.bps : LineKind(o.lines[j]) # "reject"}}

\* request k was deferred, is still the request stored for its path or was the
\* one stored when the path became mapped, and the source map of its generated
\* script has been ingested
DeferredAndMapped(k) ==
    /\ smtReqs[k].deferred
    /\ ~smtReqs[k].superseded
    /\ MapPathFromSource(smtMaps, smtReqs[k].asked.path) # ""

AttemptSucceeded ==
    \E i \in 1..Len(attSockets) : attSockets[i] \in {"connected", "destroyed", "closed"}

\* C4: a connection attempt that fails before the retry deadline is not an
\* error for the session: as long as the deadline has not expired and no
\* attached connection was closed by the peer, no TerminatedEvent is fired,
\* the session's connection is neither closed nor forgotten and the session
\* state is not cleared, and an attempt that succeeds leaves the session
\* attached: attach resolved, the connection in place, InitializedEvent fired.
FailedAttemptIsNotAnError ==
    (~attHistory.deadline /\ ~attHistory.peerClosed) =>
        /\ \A i \in 1..Len(attEvents) : attEvents[i] # "terminated"
        /\ webKitConnection # "null"
        /\ attHistory.clears = 0
        /\ AttemptSucceeded =>
              /\ attachP = "resolved"
              /\ webKitConnection = "set"
              /\ attSockets[Len(attSockets)] = "connected"
              /\ attEvents = <<"initialized">>
              /\ ~attThrew

\* C13: the promise of IosConnection.attach is resolved only when the three
\* enable messages it sends have been answered: none of them is pending.
ReadinessAfterEnable ==
    attachP = "resolved" => pendingRequests = {}

(***************************************************************************)
(* Properties of the session and its connections.                          *)
(***************************************************************************)
\* the number of events of one kind fired so far
Fired(kind) == Cardinality({i \in 1..Len(sesEvents) : sesEvents[i] = kind})
\* the continuations of attachPromise that fired InitializedEvent
FiredChains == {c \in 1..Len(conns) : conns[c].chain = "fired"}

\* C11: InitializedEvent is fired only by a continuation whose attach has
\* succeeded and whose enable and setBreakpointsActive commands have both
\* succeeded: a continuation whose attach failed, or one of whose commands
\* was answered with an error, fires none.
InitializedOnlyWhenEnabled ==
    /\ Fired("initialized") = Cardinality(FiredChains)
    /\ \A c \in FiredChains :
          /\ conns[c].attach = "resolved"
          /\ conns[c].enable = "ok"
          /\ conns[c].active = "ok"

\* C12: for one launch/attach request InitializedEvent is fired at most once
\* whatever readyForConnection signals there are, and once the request's
\* promise is resolved it has been fired exactly once.
InitializedExactlyOnce ==
    /\ Fired("initialized") <= 1
    /\ sesPromise = "resolved" => Fired("initialized") = 1

\* C14: when the retry window of a connection ends with every attempt failed,
\* the launch/attach request is settled in the end.
FailedAttachSettlesRequest ==
    (\E c \in 1..Len(conns) : conns[c].attach = "rejected") ~> (sesPromise # "pending")

\* C16: every terminateSession call - for a close, an error or a detached
\* inspector - has fired one TerminatedEvent when the request is not a sync
\* request, and none has been fired when it is one.
TerminatedUnlessSync ==
    Fired("terminated") =
        IF isSync THEN 0
        ELSE sesTriggers["close"] + sesTriggers["error"] + sesTriggers["detached"]

\* a session that is not a sync session was terminated when the inspector
\* detached and again when the socket closed, with a TerminatedEvent each time
WitnessTerminatedUnlessSync ==
    /\ ~isSync
    /\ sesTriggers = [t \in Triggers |-> IF t = "error" THEN 0 ELSE 1]
    /\ Fired("terminated") = 2

\* the connections that are open or opening and not about to be destroyed
Live == {c \in 1..Len(conns) : /\ conns[c].sock \in {"connecting", "connected"}
                               /\ ~conns[c].destroyOn}

\* C17: at most one connection is live at any time, and it is the session's.
AtMostOneLiveConnection ==
    /\ Cardinality(Live) <= 1
    /\ \A c \in Live : sesConnection \in {0, c}

(***************************************************************************)
(* Properties of pausing, stepping and inspecting.                         *)
(***************************************************************************)
\* the session handles the next notification, a Debugger.resumed
ResumedHandled ==
    /\ dbgInbox # <<>>
    /\ Head(dbgInbox).method = "Debugger.resumed"
    /\ dbgInbox' = Tail(dbgInbox)

\* C15: for every Debugger.resumed the session handles, a continued event is
\* fired exactly when the resume was not caused by a command of the bridge.
ContinuedIffExternal ==
    [][ResumedHandled =>
          ((dbgEvents'.continued = dbgEvents.continued + 1) <=> ~Head(dbgInbox).byBridge)]_vars

\* the IDE asks to evaluate
EvaluateAsked ==
    /\ dbgHistory'.requests = dbgHistory.requests + 1
    /\ lastRequest'.kind = "evaluate"

\* the session is paused in a frame whose script has had no scriptParsed since
\* the last clearTargetContext
PausedInUnknownScript ==
    /\ ~currentStack.null
    /\ Len(currentStack.frames) > 0
    /\ currentStack.frames[1].scriptId \notin scriptsById

\* C18: an evaluate on a call frame of an unknown script, while paused, throws at
\* once: no command is sent to the target and the state of the session is as
\* it was, so that the requests that follow are served as before.
EvaluateFailsFast ==
    [][(EvaluateAsked /\ PausedInUnknownScript) =>
          /\ lastRequest'.outcome = "threw"
          /\ lastRequest'.sent = Undefined
          /\ UNCHANGED <<currentStack, expectingResumedEvent, exceptionValueObject,
                         variableHandles, dbgEvents, dbgSent, dbgInbox, targetPaused,
                         bpVars>>]_vars

\* an evaluate was refused for its frame's unknown script, the script was parsed
\* and a later evaluate on the frame was sent to the target and answered
WitnessEvaluateFailsFast ==
    /\ dbgHistory.refused
    /\ lastRequest.kind = "evaluate"
    /\ lastRequest.sent = "Debugger.evaluateOnCallFrame"
    /\ lastRequest.outcome = "resolved"

\* the Debugger.paused notifications the session has handled
PausedHandled ==
    dbgHistory.pauses
      - Cardinality({i \in 1..Len(dbgInbox) : dbgInbox[i].method = "Debugger.paused"})

PrimitiveThrown(n) ==
    /\ n.reason = "exception"
    /\ n.data \in {Primitive("boom"), Primitive("bang")}
    /\ Len(n.callFrames) > 0

\* C20: after a Debugger.paused for an exception with a primitive value v and a
\* call stack, the StoppedEvent has reason exception and text v and the scope
\* chain of the top frame starts with an Exception scope; a variables request
\* on the handle of that scope is answered with the one variable 'exception'
\* of value v, and nothing is sent to the target for it.
PrimitiveExceptionShown ==
    /\ (PrimitiveThrown(dbgHistory.lastPaused) /\ ~currentStack.null) =>
          /\ dbgEvents.last = [event |-> "stopped", reason |-> "exception",
                               text |-> dbgHistory.lastPaused.data.value]
          /\ currentStack.frames[1].scopeChain[1].type = "Exception"
    /\ (/\ lastRequest.kind = "variables"
        /\ lastRequest.handle.objectId = EXCEPTION_VALUE_ID
        /\ PrimitiveThrown(lastRequest.after)) =>
          /\ lastRequest.variables =
                <<[name |-> "exception", value |-> lastRequest.after.data.value,
                   variablesReference |-> 0]>>
          /\ lastRequest.sent = 0

\* the target threw "boom", the IDE asked for the scopes of the top frame and
\* then for the variables of the Exception scope
WitnessPrimitiveExceptionShown ==
    /\ ~currentStack.null
    /\ dbgHistory.lastPaused.data = Primitive("boom")
    /\ lastRequest.kind = "variables"
    /\ lastRequest.handle.objectId = EXCEPTION_VALUE_ID
    /\ lastRequest.variables =
          <<[name |-> "exception", value |-> "boom", variablesReference |-> 0]>>

(***************************************************************************)
(* Properties of the source map transformer's rewriting of requests and    *)
(* responses.                                                              *)
(***************************************************************************)
\* request k has had its response, and it was rewritten for an authored file
MappedAndResponded(k) ==
    /\ smtReqs[k].responded
    /\ smtReqs[k].stored.authoredPath # ""

\* C21: lib.ts is mapped line for line.  The response to a setBreakpoints
\* request for lib.ts reports every requested line, in order, as the line it
\* was asked at, whatever line the target resolved the breakpoint at (the
\* lines cached for the file being those of the request when the response
\* is rewritten).
RoundTripIdentity ==
    \A k \in 1..Len(smtReqs) :
        (MappedAndResponded(k) /\ smtReqs[k].asked.path = "lib.ts" /\ smtReqs[k].own) =>
            /\ Len(smtReqs[k].response) = Len(smtReqs[k].asked.lines)
            /\ \A i \in 1..Len(smtReqs[k].response) :
                  smtReqs[k].response[i].line = smtReqs[k].asked.lines[i]

\* lib.ts lines 5 and 30: the target resolved the first one line further down
WitnessRoundTripIdentity ==
    \E k \in 1..Len(smtReqs) :
        /\ MappedAndResponded(k) /\ smtReqs[k].own
        /\ smtReqs[k].asked = SmtArgs("lib.ts", <<5, 30>>)
        /\ ops[smtReqs[k].op].result[1].line = 6
        /\ smtReqs[k].response = <<[verified |-> TRUE, line |-> 5], [verified |-> TRUE, line |-> 30]>>

\* the adapter's call for request k has ended
Served(k) == smtReqs[k].op # 0 /\ ops[smtReqs[k].op].phase = "done"

\* C24: app.ts and lib.ts both map into a.js.  After the breakpoints of one of
\* them were set and then a request for the other was served (the execution
\* context not cleared, no later call), the target holds the breakpoints of
\* both files, and the rewritten request starts with the lines of its own file.
MergedFilesKeepBreakpoints ==
    \A j, k \in 1..Len(smtReqs) :
        (/\ Served(j) /\ Served(k)
         /\ smtReqs[j].stored.authoredPath # "" /\ smtReqs[k].stored.authoredPath # ""
         /\ smtReqs[j].stored.authoredPath # smtReqs[k].stored.authoredPath
         /\ smtReqs[j].op < smtReqs[k].op
         /\ smtReqs[k].op = Len(ops)
         /\ notifs = 0)
        => /\ AskedIds(j) \cup AskedIds(k) \subseteq target
           /\ SubSeq(smtReqs[k].stored.lines, 1, Len(smtReqs[k].asked.lines))
                 = [i \in 1..Len(smtReqs[k].asked.lines) |->
                       MapFromSource(smtReqs[k].asked.path, smtReqs[k].asked.lines[i]).line]

\* C25: the response to a request that was rewritten for an authored file has
\* as many breakpoints as the request had lines, whatever other request for
\* the file was rewritten before the response.
ResponsePerRequestedLine ==
    \A k \in 1..Len(smtReqs) :
        MappedAndResponded(k) => Len(smtReqs[k].response) = Len(smtReqs[k].asked.lines)

\* request k is stored and waits for its script
Waiting(k) == smtReqs[k].deferred /\ Len(smtReqs[k].runs) = 1

\* C30: the entry of _pendingBreakpointsByPath for a path is the newest of the
\* requests for that path that wait; a request that a newer one replaced is
\* not run again, and the run that follows the resolution of a path has the
\* arguments and the sequence number of the request that was stored last.
NewerSupersedes ==
    /\ \A path \in SmtPaths :
          LET k == pendingBreakpointsByPath[path]
          IN  k # 0 =>
                 /\ smtReqs[k].asked.path = path
                 /\ Waiting(k) /\ ~smtReqs[k].settled
                 /\ \A j \in 1..Len(smtReqs) :
                       (smtReqs[j].asked.path = path /\ Waiting(j)) => j <= k
    /\ \A k \in 1..Len(smtReqs) :
          /\ smtReqs[k].superseded => Waiting(k) /\ ~smtReqs[k].settled
          /\ Len(smtReqs[k].runs) >= 2 =>
                /\ ~smtReqs[k].superseded
                /\ smtReqs[k].runs[2] = [args |-> smtReqs[k].asked, requestSeq |-> k]

\* two requests for app.ts were deferred; the source map came and the second
\* one was run again and resolved
WitnessNewerSupersedes ==
    \E j, k \in 1..Len(smtReqs) :
        /\ j < k
        /\ smtReqs[j].asked.path = "app.ts" /\ smtReqs[k].asked.path = "app.ts"
        /\ smtReqs[j].asked # smtReqs[k].asked
        /\ smtReqs[j].superseded
        /\ Len(smtReqs[k].runs) = 2 /\ smtReqs[k].settled
        /\ pendingBreakpointsByPath["app.ts"] = 0

(***************************************************************************)
(* Further properties of the breakpoint manager.                           *)
(***************************************************************************)
\* the calls that have requests outstanding at the target
Outstanding == {k \in 1..Len(ops) : \E i \in 1..Len(wire) : wire[i].op = k}

\* C22: at most one cycle has requests outstanding at the target, also when
\* the execution context is cleared while a cycle is in flight (no call having
\* timed out).
OneCycleAtTheTarget ==
    NoTimeouts => Cardinality(Outstanding) <= 1

\* C23: a call for a URL made after an earlier call for the same URL timed out
\* with its clear phase completed is not rejected by the bridge: its chain does
\* not throw.
UsableAfterTimeout ==
    \A j, k \in 1..Len(ops) :
        (/\ j < k
         /\ ops[j].url = ops[k].url
         /\ ops[j].outcome = "timeout" /\ ops[j].cleared)
        => ops[k].phase # "threw" /\ ops[k].outcome # "error"

\* C26: an add that the target accepted without a location is reported as an
\* unverified breakpoint at the requested line, column 0.
LocationlessIsUnverified ==
    \A k \in 1..Len(ops) :
        ops[k].phase = "done" =>
            \A i \in 1..ops[k].bps :
                (~ops[k].resps[i].error /\ ops[k].resps[i].locations = <<>>) =>
                    ops[k].result[i] = [verified |-> FALSE, line |-> ops[k].lines[i], column |-> 0]

AddsOf(k) == {i \in 1..Len(wire) : wire[i].op = k /\ wire[i].kind = "add"}

\* C27: the add requests of a cycle are outstanding only when every remove of
\* the cycle has been answered; they are sent together, one per requested
\* breakpoint at its line (those not yet answered are outstanding), and the
\* cycle has its result only when all of them have been answered.
AddsAfterRemoves ==
    \A k \in 1..Len(ops) :
        LET o == ops[k]
        IN  /\ AddsOf(k) # {} =>
                  /\ o.phase = "adding"
                  /\ RemovesOf(k) = {}
                  /\ o.acked = Len(o.snap)
            /\ o.phase = "adding" =>
                  /\ {wire[i].idx : i \in AddsOf(k)} = (Len(o.resps) + 1)..o.bps
                  /\ Cardinality(AddsOf(k)) = o.bps - Len(o.resps)
                  /\ \A i \in AddsOf(k) : wire[i].line = o.lines[wire[i].idx]
                  /\ o.result = <<>>
            /\ o.phase \in {"queued", "clearing", "refused", "threw"} =>
                  o.resps = <<>> /\ o.result = <<>>
            /\ o.phase = "done" => Len(o.resps) = o.bps /\ Len(o.result) = o.bps

\* a cycle has removed the two committed breakpoints of its URL, one after the
\* other, and its two adds are outstanding, none answered
WitnessAddsAfterRemoves ==
    \E k \in 1..Len(ops) :
        /\ ops[k].phase = "adding"
        /\ Len(ops[k].snap) = 2 /\ ops[k].acked = 2
        /\ Cardinality(AddsOf(k)) = 2
        /\ ops[k].resps = <<>>

(***************************************************************************)
(* Properties of the clearing of the session's state.                      *)
(***************************************************************************)
\* C28: the step that handles Debugger.globalObjectCleared leaves every script
\* id unknown, no URL with committed breakpoints and no last output event;
\* and as long as no console message has come since, no OutputEvent is fired,
\* whatever repeat count updates come.
ContextClearedTogether ==
    /\ [][notifs' = notifs + 1 =>
             /\ \A scriptId \in Scripts : ~ScriptIsNotUnknown(scriptId)'
             /\ \A url \in MapKeys : ~Has(committed, url)'
             /\ lastOutputEvent' = Null]_vars
    /\ [](ctxHistory.quiet =>
             /\ lastOutputEvent = Null
             /\ outputEvents = ctxHistory.outputs)

\* a script was parsed, a breakpoint committed and a console message repeated;
\* the context was cleared, and a repeat count update came after it
WitnessContextClearedTogether ==
    /\ ctxHistory.quiet
    /\ ctxHistory.repeats = 1
    /\ ctxHistory.outputs >= 2
    /\ \E k \in 1..Len(ops) : ops[k].phase = "done" /\ ops[k].after # <<>>
    /\ scriptsById = {}
    /\ committed = EmptyMap
    /\ outputEvents = ctxHistory.outputs

\* C29: the step in which the session terminates (the connection's 'close',
\* 'error' or 'Inspector.detached') leaves the script registry and the
\* committed-breakpoint map empty, no last output event, no connection, and
\* no call-frame stack: the session is not paused.
ClearedAtEnd ==
    [][sesTriggers' # sesTriggers =>
          /\ scriptsById' = {}
          /\ committed' = EmptyMap
          /\ lastOutputEvent' = Null
          /\ sesConnection' = 0
          /\ currentStack'.null]_vars

\* the elements of a sequence
Range(seq) == {seq[i] : i \in 1..Len(seq)}

\* a deferred request is run again in this step
RunAgain(k) == Len(smtReqs'[k].runs) > Len(smtReqs[k].runs)

\* C31: pending breakpoints are resolved at two places only.  When the
\* ingestion of a script's source map completes, the pending requests of all
\* the authored paths that map into the script are run again, and of no other
\* path; the step that starts the ingestion resolves nothing.  When a script
\* without source map is parsed, the request pending on exactly that script
\* path is run again in the same step and every other pending entry stays.
ResolvedWhenIngested ==
    [][ /\ \A k \in 1..Len(smtReqs) :
              RunAgain(k) =>
                 LET path == smtReqs[k].asked.path
                 IN  \/ \E scriptUrl \in smtIngesting \ smtIngesting' :
                           /\ scriptUrl \in smtMaps'
                           /\ path \in Range(AllMappedSources(smtMaps', scriptUrl))
                     \/ /\ smtIngesting' = smtIngesting
                        /\ smtMaps' = smtMaps
                        /\ path \in allRuntimeScriptPaths' \ allRuntimeScriptPaths
                        /\ \A p \in SmtPaths \ {path} :
                              pendingBreakpointsByPath'[p] = pendingBreakpointsByPath[p]
        /\ \A scriptUrl \in smtIngesting \ smtIngesting' :
              \A path \in Range(AllMappedSources(smtMaps', scriptUrl)) :
                 pendingBreakpointsByPath'[path] = 0
        /\ smtIngesting' = smtIngesting =>
              \A scriptUrl \in allRuntimeScriptPaths' \ allRuntimeScriptPaths :
                 pendingBreakpointsByPath'[scriptUrl] = 0
        /\ smtIngesting' # smtIngesting /\ smtIngesting \subseteq smtIngesting' =>
              pendingBreakpointsByPath' = pendingBreakpointsByPath
      ]_vars

\* lib.ts was asked for first and resolved when it was parsed as a script of
\* its own; app.ts was asked for next and resolved when a.js's map was ingested
WitnessResolvedWhenIngested ==
    /\ Len(smtReqs) = 2
    /\ smtReqs[1].asked.path = "lib.ts"
    /\ smtReqs[1].deferred /\ Len(smtReqs[1].runs) = 2
    /\ smtReqs[1].stored.path = "lib.ts"
    /\ smtReqs[2].asked.path = "app.ts"
    /\ smtReqs[2].deferred /\ Len(smtReqs[2].runs) = 2
    /\ smtReqs[2].stored.path = "a.js"
    /\ smtIngesting = {}

(***************************************************************************)
(* Properties of the handles and of the stack frames over several pauses.  *)
(***************************************************************************)
\* the handles that hold the marker of a primitive exception value
MarkerHandles == {i \in 1..Len(variableHandles) : IsExceptionValue(variableHandles[i])}

\* C32: a variables request on the handle of an Exception scope that was made
\* for a primitive exception is answered with the primitive thrown at the pause
\* the handle was made at, also after a later pause for another primitive.
MarkerKeepsItsValue ==
    (/\ lastRequest.kind = "variables"
     /\ IsExceptionValue(lastRequest.handle)
     /\ MarkerHandles = {dbgHistory.marker.ref}) =>
        lastRequest.variables =
           <<[name |-> "exception", value |-> dbgHistory.marker.data.value,
              variablesReference |-> 0]>>

\* C38: every frame of a stackTrace response has the index of that frame in
\* the call stack as its id, whatever startFrame and levels are, and
\* totalFrames is the length of the call stack.
FrameIdIsIndex ==
    (lastRequest.kind = "stackTrace" /\ lastRequest.outcome = "resolved") =>
        /\ \A i \in 1..Len(lastRequest.stackFrames) :
              LET frame == lastRequest.stackFrames[i]
              IN  /\ frame.id < Len(lastRequest.callStack)
                  /\ lastRequest.callStack[frame.id + 1] = frame.callFrameId
        /\ lastRequest.totalFrames = Len(lastRequest.callStack)

\* C35: at most one TerminatedEvent is fired in a debug session, whatever
\* inspector-detached, error and close notifications arrive and in whatever
\* order, the close that follows the session's own closing of the connection
\* included.
AtMostOneTerminated == Fired("terminated") <= 1

(***************************************************************************)
(* Properties of the multiplexer's handling of inbound messages.           *)
(***************************************************************************)
\* the requests pending when inbound message i came in, from the history
PendingAt(i) ==
    (1..muxLog[i].sent) \ UNION {muxLog[j].resolved : j \in 1..(i - 1)}

\* C33: an inbound message that carries an id for which no request is pending
\* is dropped: it resolves no request, the pending requests stay as they were,
\* no listener is invoked, the socket is not closed by it, and a response that
\* comes later still resolves the request of its id.
UnknownIdDropped ==
    /\ [](\A i \in 1..Len(muxLog) :
             (muxLog[i].message.hasId /\ muxLog[i].message.id \notin PendingAt(i)) =>
                /\ muxLog[i].resolved = {}
                /\ muxLog[i].pending = PendingAt(i)
                /\ muxLog[i].delivered = <<>>
                /\ \A j \in (i + 1)..Len(muxLog) :
                      muxLog[j].message.id \in PendingAt(j) =>
                         muxLog[j].resolved = {muxLog[j].message.id})
    /\ [][muxLog' # muxLog => muxSocket' = muxSocket]_vars

\* C34: an inbound message without id and with a method name is delivered once
\* to every listener registered for that name, in the order of registration,
\* and to no other listener, and resolves no request; a message that carries an
\* id is not delivered to any listener.
EventsToTheirListeners ==
    \A i \in 1..Len(muxLog) :
       LET entry == muxLog[i]
       IN  /\ (~entry.message.hasId /\ entry.message.method # "") =>
                 /\ entry.delivered =
                       ListenersOf(SubSeq(muxListeners, 1, entry.registered), entry.message.method)
                 /\ entry.resolved = {}
                 /\ entry.pending = PendingAt(i)
           /\ entry.message.hasId => entry.delivered = <<>>

\* C36: a request sent through the multiplexer does not stay pending on a
\* closed connection: whatever is pending when the socket closes, or is sent
\* afterwards, is settled in the end.
SettledAtClose ==
    \A id \in 1..MaxSends :
       (~muxSocket.open /\ id \in pendingRequests) ~> (id \notin pendingRequests)

\* a newer request for the path of request k has been resolved
NewerResolved(k) ==
    \E j \in (k + 1)..Len(smtReqs) :
       smtReqs[j].asked.path = smtReqs[k].asked.path /\ smtReqs[j].settled

\* C37: a deferred setBreakpoints request that a newer request for the same
\* path has replaced is settled in the end, once the newer request is resolved.
SupersededIsSettled ==
    \A k \in 1..MaxSmtReqs :
       (k <= Len(smtReqs) /\ smtReqs[k].superseded /\ NewerResolved(k))
          ~> (k <= Len(smtReqs) /\ smtReqs[k].settled)

(***************************************************************************)
(* Properties of setBreakpoints requests without a target script.          *)
(***************************************************************************)
\* the calls that were rejected for want of a target script
Refused == {k \in 1..Len(ops) : ops[k].phase = "refused"}

\* C39: a setBreakpoints request without source path whose sourceReference
\* names no registered script, or a script with an empty url, is rejected with
\* an error and changes nothing else: nothing is sent to the target, the
\* committed map and the queue stay as they are, the calls made before are
\* untouched, and no call ever waits for it.  (In these runs the requests by
\* path are for b.js, so a call for a.js was made by the reference of script 1
\* and needs that script registered; a call for the url "" does not exist.)
RefusedChangesNothing ==
    /\ [](\A k \in 1..Len(ops) :
             /\ ops[k].url = "" <=> k \in Refused
             /\ ops[k].waitsOn \notin Refused
             /\ k \in Refused =>
                   /\ ops[k].outcome = "error" /\ ops[k].runs = 0 /\ ops[k].sent = 0
                   /\ requestQ # k
                   /\ \A i \in 1..Len(wire) : wire[i].op # k)
    /\ [][Len(ops') = Len(ops) + 1 =>
             LET k == Len(ops')
             IN  /\ ops'[k].url = "a.js" => 1 \in scriptsById
                 /\ ops'[k].phase = "refused" =>
                       /\ SubSeq(ops', 1, Len(ops)) = ops
                       /\ UNCHANGED <<requestQ, committed, wire, target, scriptsById>>
       ]_vars

\* the anonymous script is registered and script 1 is not; the first call, for
\* b.js, has its request at the target, the second call was rejected, the third
\* call, for b.js again, waits for the first one
WitnessRefusedChangesNothing ==
    /\ scriptsById = AnonymousScripts
    /\ Len(ops) = 3
    /\ InFlight(ops[1]) /\ wire # <<>>
    /\ 2 \in Refused
    /\ ops[3].phase = "queued" /\ ops[3].waitsOn = 1
    /\ requestQ = 3

====
